---- MODULE Spec2Model ----
(***************************************************************************)
(* Webhook TLS certificate lifecycle manager of butane-operator            *)
(* (package certs: Ensure, needsRenewal, writeCertsToDisk,                 *)
(* patchWebhookConfig, mutatingWebhookName, generateCA,                    *)
(* generateServerCert), run by one or two operator replicas against one    *)
(* Kubernetes object store; and the ButaneConfig reconciler               *)
(* (ButaneConfigReconciler.Reconcile), which translates the Butane         *)
(* document of a ButaneConfig into the Ignition Secret "<name>-ignition".  *)
(***************************************************************************)
EXTENDS Integers, Sequences, FiniteSets, TLC

(***************************************************************************)
(* Bounds.                                                                 *)
(***************************************************************************)
MaxTime == 1
MaxPasses == 2
MaxHooks == 1

AllReplicas == {1, 2}

(***************************************************************************)
(* Byte strings.  A byte string is empty, raw text that is not PEM, or one *)
(* PEM block carrying DER bytes.  DER bytes are junk, an X.509             *)
(* certificate or a PKCS#1 private key.                                    *)
(***************************************************************************)
NoDER ==
  [asn |-> "none", key |-> 0, signer |-> 0, notBefore |-> 0, notAfter |-> 0,
   isCA |-> FALSE, cn |-> <<>>, dns |-> <<>>, keyUsage |-> {}, extKeyUsage |-> {}]

JunkDER == [NoDER EXCEPT !.asn = "junk"]

\* x509.MarshalPKCS1PrivateKey
MarshalPKCS1PrivateKey(k) == [NoDER EXCEPT !.asn = "pkcs1", !.key = k]

Nil == [fmt |-> "empty", typ |-> "", der |-> NoDER]

RawText == [fmt |-> "raw", typ |-> "", der |-> NoDER]

\* pem.EncodeToMemory(&pem.Block{Type: t, Bytes: d})
EncodeToMemory(t, d) == [fmt |-> "pem", typ |-> t, der |-> d]

NoBlock == [ok |-> FALSE, typ |-> "", der |-> NoDER]

\* pem.Decode: the first PEM block of the input, or nil when there is none
Decode(b) ==
  IF b.fmt = "pem" THEN [ok |-> TRUE, typ |-> b.typ, der |-> b.der] ELSE NoBlock

\* x509.ParseCertificate: succeeds only on the DER of a certificate
ParseCertificate(d) == [ok |-> d.asn = "cert", cert |-> d]

len(b) == IF b.fmt = "empty" THEN 0 ELSE 1

\* Go map lookup m[k]: the zero value (a nil slice) when the key is absent
Lookup(data, k) == IF k \in DOMAIN data THEN data[k] ELSE Nil

(***************************************************************************)
(* Names.  A name is a sequence of characters.                             *)
(***************************************************************************)
old == <<"v", "a", "l", "i", "d", "a", "t", "i", "n", "g">>
new == <<"m", "u", "t", "a", "t", "i", "n", "g">>

Slice(s, i, j) == [n \in 1..(j - i) |-> s[i + n]]

RECURSIVE mutatingScan(_, _)
mutatingScan(validatingName, i) ==
  IF i > Len(validatingName) - Len(old) THEN validatingName
  ELSE IF Slice(validatingName, i, i + Len(old)) = old
       THEN Slice(validatingName, 0, i) \o new
            \o Slice(validatingName, i + Len(old), Len(validatingName))
       ELSE mutatingScan(validatingName, i + 1)

\* a derivation that rewrites the last occurrence of the marker
mutatingWebhookName_last(validatingName) ==
  LET at == {i \in 0..(Len(validatingName) - Len(old)) :
               Slice(validatingName, i, i + Len(old)) = old}
  IN IF at = {} THEN validatingName
     ELSE LET i == CHOOSE x \in at : \A y \in at : y <= x
          IN Slice(validatingName, 0, i) \o new
             \o Slice(validatingName, i + Len(old), Len(validatingName))

\* for i := 0; i <= len(validatingName)-len(old); i++ { ... }; return validatingName
mutatingWebhookName(validatingName) == mutatingScan(validatingName, 0)

\* fmt.Sprintf("%s.%s" + suffix, serviceName, namespace)
Sprintf(suffix, serviceName, namespace) == serviceName \o <<".">> \o namespace \o suffix

\* a name list that puts the cluster-qualified name first
dnsNamesForService_swapped(serviceName, namespace) ==
  << Sprintf(<<".", "s", "v", "c", ".", "c", "l", "u", "s", "t", "e", "r",
               ".", "l", "o", "c", "a", "l">>, serviceName, namespace),
     Sprintf(<<".", "s", "v", "c">>, serviceName, namespace) >>

\* "%s.%s.svc" and "%s.%s.svc.cluster.local"
dnsNamesForService(serviceName, namespace) ==
  << Sprintf(<<".", "s", "v", "c">>, serviceName, namespace),
     Sprintf(<<".", "s", "v", "c", ".", "c", "l", "u", "s", "t", "e", "r",
               ".", "l", "o", "c", "a", "l">>, serviceName, namespace) >>

(***************************************************************************)
(* Certificates.  Keys are numbered; a certificate names its own public    *)
(* key and the key that signed it.                                         *)
(***************************************************************************)
\* an authority generator that leaves IsCA and the key usage out of the template
generateCA_notCA(validity, k, t) ==
  LET tmpl == [asn |-> "cert", key |-> k, signer |-> k,
               notBefore |-> t, notAfter |-> t + validity,
               isCA |-> FALSE, cn |-> <<"webhook-ca">>, dns |-> <<>>,
               keyUsage |-> {}, extKeyUsage |-> {}]
  IN [cert |-> tmpl, key |-> k, certPEM |-> EncodeToMemory("CERTIFICATE", tmpl)]

\* an authority generator that backdates NotBefore by one unit
generateCA_backdated(validity, k, t) ==
  LET tmpl == [asn |-> "cert", key |-> k, signer |-> k,
               notBefore |-> t - 1, notAfter |-> t + validity,
               isCA |-> TRUE, cn |-> <<"webhook-ca">>, dns |-> <<>>,
               keyUsage |-> {"certSign", "crlSign"}, extKeyUsage |-> {}]
  IN [cert |-> tmpl, key |-> k, certPEM |-> EncodeToMemory("CERTIFICATE", tmpl)]

\* generateCA, given the key rsa.GenerateKey drew and the time time.Now() read
generateCA(validity, k, t) ==
  LET tmpl == [asn |-> "cert", key |-> k, signer |-> k,
               notBefore |-> t, notAfter |-> t + validity,
               isCA |-> TRUE, cn |-> <<"webhook-ca">>, dns |-> <<>>,
               keyUsage |-> {"certSign", "crlSign"}, extKeyUsage |-> {}]
  IN [cert |-> tmpl, key |-> k, certPEM |-> EncodeToMemory("CERTIFICATE", tmpl)]

\* a leaf generator that puts only the first name into DNSNames
generateServerCert_firstNameOnly(caCert, caKey, dnsNames, validity, k, t) ==
  LET tmpl == [asn |-> "cert", key |-> k, signer |-> caKey,
               notBefore |-> t, notAfter |-> t + validity,
               isCA |-> FALSE, cn |-> dnsNames[1], dns |-> <<dnsNames[1]>>,
               keyUsage |-> {"digitalSignature", "keyEncipherment"},
               extKeyUsage |-> {"serverAuth"}]
  IN [certPEM |-> EncodeToMemory("CERTIFICATE", tmpl),
      keyPEM |-> EncodeToMemory("RSA PRIVATE KEY", MarshalPKCS1PrivateKey(k))]

\* a leaf generator that signs with the key of the authority issued at first
generateServerCert_firstAuthority(caCert, caKey, dnsNames, validity, k, t) ==
  LET tmpl == [asn |-> "cert", key |-> k, signer |-> 1,
               notBefore |-> t, notAfter |-> t + validity,
               isCA |-> FALSE, cn |-> dnsNames[1], dns |-> dnsNames,
               keyUsage |-> {"digitalSignature", "keyEncipherment"},
               extKeyUsage |-> {"serverAuth"}]
  IN [certPEM |-> EncodeToMemory("CERTIFICATE", tmpl),
      keyPEM |-> EncodeToMemory("RSA PRIVATE KEY", MarshalPKCS1PrivateKey(k))]

\* a leaf generator that signs the leaf with the leaf's own key
generateServerCert_selfSigned(caCert, caKey, dnsNames, validity, k, t) ==
  LET tmpl == [asn |-> "cert", key |-> k, signer |-> k,
               notBefore |-> t, notAfter |-> t + validity,
               isCA |-> FALSE, cn |-> dnsNames[1], dns |-> dnsNames,
               keyUsage |-> {"digitalSignature", "keyEncipherment"},
               extKeyUsage |-> {"serverAuth"}]
  IN [certPEM |-> EncodeToMemory("CERTIFICATE", tmpl),
      keyPEM |-> EncodeToMemory("RSA PRIVATE KEY", MarshalPKCS1PrivateKey(k))]

\* generateServerCert, given the key drawn and the time read
generateServerCert(caCert, caKey, dnsNames, validity, k, t) ==
  LET tmpl == [asn |-> "cert", key |-> k, signer |-> caKey,
               notBefore |-> t, notAfter |-> t + validity,
               isCA |-> FALSE, cn |-> dnsNames[1], dns |-> dnsNames,
               keyUsage |-> {"digitalSignature", "keyEncipherment"},
               extKeyUsage |-> {"serverAuth"}]
  IN [certPEM |-> EncodeToMemory("CERTIFICATE", tmpl),
      keyPEM |-> EncodeToMemory("RSA PRIVATE KEY", MarshalPKCS1PrivateKey(k))]

\* a renewal policy that renews on every pass
needsRenewal_always(sec, threshold, t) == TRUE

\* a renewal policy that also renews at remaining = threshold
needsRenewal_atBoundary(sec, threshold, t) ==
  LET certPEM == Lookup(sec.data, "tls.crt")
      block == Decode(certPEM)
      parsed == ParseCertificate(block.der)
  IN IF "tls.crt" \notin DOMAIN sec.data \/ len(certPEM) = 0 THEN TRUE
     ELSE IF ~block.ok THEN TRUE
     ELSE IF ~parsed.ok THEN TRUE
     ELSE (parsed.cert.notAfter - t) <= threshold

\* a renewal policy that waits until the leaf has expired
needsRenewal_expiredOnly(sec, threshold, t) ==
  LET certPEM == Lookup(sec.data, "tls.crt")
      block == Decode(certPEM)
      parsed == ParseCertificate(block.der)
  IN IF "tls.crt" \notin DOMAIN sec.data \/ len(certPEM) = 0 THEN TRUE
     ELSE IF ~block.ok THEN TRUE
     ELSE IF ~parsed.ok THEN TRUE
     ELSE (parsed.cert.notAfter - t) < 0

\* a renewal policy that also renews when the authority is missing or has expired
needsRenewal_checksAuthority(sec, threshold, t) ==
  LET certPEM == Lookup(sec.data, "tls.crt")
      block == Decode(certPEM)
      parsed == ParseCertificate(block.der)
      caBlock == Decode(Lookup(sec.data, "ca.crt"))
  IN IF "tls.crt" \notin DOMAIN sec.data \/ len(certPEM) = 0 THEN TRUE
     ELSE IF ~block.ok THEN TRUE
     ELSE IF ~parsed.ok THEN TRUE
     ELSE IF ~caBlock.ok \/ caBlock.der.notAfter <= t THEN TRUE
     ELSE (parsed.cert.notAfter - t) < threshold

\* needsRenewal, with time.Until read at time t
needsRenewal(sec, threshold, t) ==
  LET certPEM == Lookup(sec.data, "tls.crt")
      ok == "tls.crt" \in DOMAIN sec.data
      block == Decode(certPEM)
      parsed == ParseCertificate(block.der)
  IN IF ~ok \/ len(certPEM) = 0 THEN TRUE
     ELSE IF ~block.ok THEN TRUE
     ELSE IF ~parsed.ok THEN TRUE
     ELSE (parsed.cert.notAfter - t) < threshold

(***************************************************************************)
(* Configuration (type Config).                                            *)
(***************************************************************************)
ServiceName == <<"s", "v", "c">>
Namespace == <<"n", "s">>
SecretName == "webhook-server-cert"

MarkedName == <<"o", "p", "-">> \o old \o <<"-", "w">>
PrimaryNames == {MarkedName}
Names == PrimaryNames \cup {mutatingWebhookName(n) : n \in PrimaryNames}

MaxValidity == 1
MaxThreshold == 1

Configs ==
  [ServiceName : {ServiceName},
   Namespace : {Namespace},
   WebhookConfigName : PrimaryNames,
   CertValidity : 1..MaxValidity,
   RenewalThreshold : 1..MaxThreshold]

(***************************************************************************)
(* Objects of the store.                                                   *)
(***************************************************************************)
NoData == [k \in {} |-> Nil]

\* the empty object a typed client returns next to an error
NoSecret == [name |-> "", resourceVersion |-> 0, data |-> NoData]

NoConfig == [exists |-> FALSE, resourceVersion |-> 0, webhooks |-> <<>>]

NoFile == [exists |-> FALSE, data |-> Nil]

File(b) == [exists |-> TRUE, data |-> b]

EmptyDisk == [dir |-> FALSE, crt |-> NoFile, key |-> NoFile]

(***************************************************************************)
(* State.                                                                  *)
(***************************************************************************)
(***************************************************************************)
(* ButaneConfig and its Ignition Secret.                                   *)
(***************************************************************************)
MaxEdits == 2
MaxReconciles == 2

ButaneName == <<"b", "c">>
ButaneNamespace == "default"

\* spec.config.Raw: nil, or a Butane document as the JSON the store keeps
NilRaw ==
  [nil |-> TRUE, syntax |-> "", version |-> "", body |-> 0, unused |-> FALSE,
   bad |-> FALSE]

Doc(version, body, unused, bad) ==
  [nil |-> FALSE, syntax |-> "json", version |-> version, body |-> body,
   unused |-> unused, bad |-> bad]

\* two valid documents, one with a key the schema does not know (a warning),
\* one with a value the schema rejects (a fatal report entry), one without version
RawConfigs ==
  {NilRaw,
   Doc("1.5.0", 1, FALSE, FALSE),
   Doc("1.5.0", 2, FALSE, FALSE),
   Doc("1.5.0", 1, TRUE, FALSE),
   Doc("1.5.0", 1, FALSE, TRUE),
   Doc("", 1, FALSE, FALSE)}

NilBytes == [nil |-> TRUE, ignition |-> "", storage |-> 0]

\* the Ignition JSON of a document
Ignition(raw) == [nil |-> FALSE, ignition |-> "3.4.0", storage |-> raw.body]

\* config.TranslateBytes(rawConfig, common.TranslateBytesOptions{}): the Ignition
\* bytes, the number of report entries and the error ("" is nil).  A document
\* that cannot be parsed yields an error and an empty report; a fatal entry
\* yields an error next to the report; a warning yields bytes, a report with
\* entries and no error
TranslateBytes(raw) ==
  LET entries == (IF raw.unused THEN 1 ELSE 0) + (IF raw.bad THEN 1 ELSE 0)
  IN IF raw.nil \/ raw.version = ""
     THEN [out |-> NilBytes, entries |-> 0, err |-> "unmarshal"]
     ELSE IF raw.bad
     THEN [out |-> NilBytes, entries |-> entries, err |-> "invalid source config"]
     ELSE [out |-> Ignition(raw), entries |-> entries, err |-> ""]

\* fmt.Sprintf("%s-ignition", butaneConfig.Name)
SecretNameFor(name) == name \o <<"-", "i", "g", "n", "i", "t", "i", "o", "n">>

SecretNames == {SecretNameFor(ButaneName), ButaneName}

\* no ButaneConfig; resourceVersion is the store's revision counter
NoButane ==
  [exists |-> FALSE, name |-> ButaneName, namespace |-> ButaneNamespace, uid |-> 0,
   raw |-> NilRaw, resourceVersion |-> 0, secretName |-> <<>>]

NoOwner == [uid |-> 0, name |-> <<>>, controller |-> FALSE]

NoIgnition ==
  [exists |-> FALSE, name |-> <<>>, namespace |-> "", userdata |-> NilBytes,
   owner |-> NoOwner, resourceVersion |-> 0]

\* json.Unmarshal(r.Spec.Config.Raw, &butane): the error, "" for nil
Unmarshal(raw) ==
  IF raw.nil THEN "unexpected end of JSON input"
  ELSE IF raw.syntax # "json" THEN "invalid character"   \* not from the API server
  ELSE ""

\* a validator that looks at the translator's error only
validateButaneConfig_errorOnly(r) ==
  IF Unmarshal(r.raw) # "" THEN "failed to unmarshal Butane config"
  ELSE IF TranslateBytes(r.raw).err # "" THEN "failed to translate Butane to Ignition"
  ELSE ""

\* validateButaneConfig: the error, "" for nil
validateButaneConfig(r) ==
  LET t == TranslateBytes(r.raw)
  IN IF Unmarshal(r.raw) # "" THEN "failed to unmarshal Butane config"
     ELSE IF t.err # "" \/ t.entries > 0 THEN "failed to translate Butane to Ignition"
     ELSE ""

ValidateCreate(obj) == validateButaneConfig(obj)

ValidateUpdate(oldObj, newObj) == validateButaneConfig(newObj)

ValidateDelete(obj) == ""

\* the validator's answer to an admission request
Review(verb, oldObj, newObj) ==
  [verb |-> verb, old |-> oldObj.raw, new |-> newObj.raw,
   err |-> IF verb = "create" THEN ValidateCreate(newObj)
           ELSE IF verb = "update" THEN ValidateUpdate(oldObj, newObj)
           ELSE ValidateDelete(oldObj)]

\* no admission request has been reviewed
NoReview == [verb |-> "", old |-> NilRaw, new |-> NilRaw, err |-> ""]

\* the reconciler between two requests
IdleReconcile ==
  [pc |-> "idle", obj |-> NoButane, out |-> NilBytes, secret |-> NoIgnition,
   result |-> "", ops |-> <<>>, runs |-> 0]

VARIABLES
  now,        \* the clock time.Now reads
  nextKey,    \* the next key rand.Reader yields
  cfg,        \* the Config passed to Ensure
  secret,     \* the Secret cfg.Namespace/cfg.SecretName in the store, or NoSecret
  vwcStore,   \* ValidatingWebhookConfigurations by name
  mwcStore,   \* MutatingWebhookConfigurations by name
  disk,       \* cfg.CertDir of each replica
  pc,         \* position of each replica's Ensure call
  existing,   \* Ensure's local: the Secret read
  ca,         \* Ensure's locals caCert, caKey, caPEM
  use,        \* the bytes handed to writeCertsToDisk and patchWebhookConfig
  vwc,        \* patchWebhookConfig's local vwc
  mwc,        \* patchWebhookConfig's local mwc
  result,     \* what Ensure returned: "" while running, "ok", or the error
  ops,        \* the calls the current pass has made so far
  pre,        \* the Secret in the store when the current pass began
  passes,     \* number of passes each replica has begun
  bc,         \* the ButaneConfig ButaneNamespace/ButaneName in the store
  ign,        \* the Secrets of ButaneNamespace by name
  rec,        \* Reconcile's position, locals, return value and calls
  edits,      \* number of writes users have made to the ButaneConfig
  adm         \* the admission request the validator reviewed last, and its answer

certs == <<now, nextKey, cfg, secret, vwcStore, mwcStore, disk, pc, existing,
           ca, use, vwc, mwc, result, ops, pre, passes>>
butane == <<bc, ign, rec, edits, adm>>

vars == <<certs, butane>>

shared == <<secret, vwcStore, mwcStore>>
locals == <<existing, ca, use, vwc, mwc>>

(***************************************************************************)
(* Initial objects.                                                        *)
(***************************************************************************)
OldCAKey == 1
OldLeafKey == 2
OtherKey == 3
FirstFreshKey == OtherKey + 1
MaxInitNotAfter == 1

OldCA(na) == generateCA(na, OldCAKey, 0)
OtherCA(na) == generateCA(na, OtherKey, 0)
OldLeaf(na) ==
  generateServerCert(OldCA(na).cert, OldCAKey,
                     dnsNamesForService(ServiceName, Namespace), na, OldLeafKey, 0)

\* a Secret built without ObjectMeta.Name
SecretOf_unnamed(rv, d) == [name |-> "", resourceVersion |-> rv, data |-> d]

\* &corev1.Secret{ObjectMeta: {Name: cfg.SecretName, ...}, Data: ...} as stored
SecretOf(rv, d) == [name |-> SecretName, resourceVersion |-> rv, data |-> d]

Triple(caPEM, certPEM, keyPEM) ==
  [k \in {"ca.crt", "tls.crt", "tls.key"} |->
     IF k = "ca.crt" THEN caPEM ELSE IF k = "tls.crt" THEN certPEM ELSE keyPEM]

Without(d, k) == [x \in (DOMAIN d) \ {k} |-> d[x]]

GoodData(na) == Triple(OldCA(na).certPEM, OldLeaf(na).certPEM, OldLeaf(na).keyPEM)

\* records an earlier pass left behind
IssuedData == {GoodData(na) : na \in 0..MaxInitNotAfter}

\* records whose fields were edited, dropped or damaged since
DamagedData ==
  LET g == GoodData(MaxInitNotAfter)
      otherKeyPEM == EncodeToMemory("RSA PRIVATE KEY", MarshalPKCS1PrivateKey(OtherKey))
  IN { [g EXCEPT !["tls.key"] = Nil],
       [g EXCEPT !["tls.key"] = otherKeyPEM],
       [g EXCEPT !["ca.crt"] = OtherCA(MaxInitNotAfter).certPEM],
       Without(g, "ca.crt"),
       Without(g, "tls.crt"),
       [g EXCEPT !["tls.crt"] = Nil],
       [g EXCEPT !["tls.crt"] = RawText],
       [g EXCEPT !["tls.crt"] = EncodeToMemory("CERTIFICATE", JunkDER)] }

InitSecrets == {NoSecret} \cup {SecretOf(1, d) : d \in IssuedData \cup DamagedData}

Hook(i, b) == [name |-> i, caBundle |-> b]

InitHooks(n) ==
  [i \in 1..n |-> Hook(i, IF i % 2 = 1 THEN Nil ELSE OldCA(MaxInitNotAfter).certPEM)]

InitConfigs ==
  {NoConfig} \cup
  {[exists |-> TRUE, resourceVersion |-> 1, webhooks |-> InitHooks(n)] : n \in {0, MaxHooks}}

TypeOK ==
  /\ now \in 0..MaxTime
  /\ nextKey \in Nat
  /\ cfg \in Configs
  /\ pc \in [AllReplicas ->
       {"idle", "getSecret", "checkRenewal", "genCA", "genLeaf", "persist",
        "writeDisk", "getVWC", "updateVWC", "getMWC", "updateMWC", "done"}]
  /\ passes \in [AllReplicas -> 0..MaxPasses]

\* no ButaneConfig, no Secret, no request
ButaneIdle ==
  /\ bc = NoButane
  /\ ign = [n \in SecretNames |-> NoIgnition]
  /\ rec = IdleReconcile
  /\ edits = 0
  /\ adm = NoReview

Init ==
  /\ now = 0
  /\ nextKey = FirstFreshKey
  /\ cfg \in Configs
  /\ secret \in InitSecrets
  /\ \E v \in InitConfigs, m \in InitConfigs :
       /\ vwcStore = [n \in Names |-> IF n = cfg.WebhookConfigName THEN v ELSE NoConfig]
       /\ mwcStore = [n \in Names |->
            IF n = mutatingWebhookName(cfg.WebhookConfigName) THEN m ELSE NoConfig]
  /\ disk \in [AllReplicas -> {EmptyDisk}]
  /\ pc = [r \in AllReplicas |-> "idle"]
  /\ existing = [r \in AllReplicas |-> NoSecret]
  /\ ca = [r \in AllReplicas |-> generateCA(0, 0, 0)]
  /\ use = [r \in AllReplicas |-> Triple(Nil, Nil, Nil)]
  /\ vwc = [r \in AllReplicas |-> NoConfig]
  /\ mwc = [r \in AllReplicas |-> NoConfig]
  /\ result = [r \in AllReplicas |-> ""]
  /\ ops = [r \in AllReplicas |-> <<>>]
  /\ pre = [r \in AllReplicas |-> NoSecret]
  /\ passes = [r \in AllReplicas |-> 0]
  /\ ButaneIdle

(***************************************************************************)
(* Ensure, one action per call it makes.                                   *)
(***************************************************************************)
Call(o, res, rv) == [op |-> o, res |-> res, rv |-> rv]

Log(r, o, res, rv) == ops' = [ops EXCEPT ![r] = Append(@, Call(o, res, rv))]

\* return fmt.Errorf(...)
Return(r, e) ==
  /\ pc' = [pc EXCEPT ![r] = "done"]
  /\ result' = [result EXCEPT ![r] = e]

Goto(r, l) ==
  /\ pc' = [pc EXCEPT ![r] = l]
  /\ UNCHANGED result

\* an error check that never fires
Failed_never(ans) == FALSE

\* an error check that takes an already-exists answer for success
Failed_existsIsFine(ans) == ans \notin {"ok", "alreadyexists"}

\* an error check that lets transport errors through
Failed_ignoresError(ans) == ans \notin {"ok", "error"}

\* if err != nil
Failed(ans) == ans # "ok"

\* a branch that only tests existing != nil
UseUpdate_nonNil(ex) == TRUE

\* if existing != nil && existing.Name != ""
UseUpdate(ex) == ex.name # ""

\* the caller invokes Ensure
StartEnsure(r) ==
  /\ pc[r] \in {"idle", "done"}
  /\ passes[r] < MaxPasses
  /\ passes' = [passes EXCEPT ![r] = @ + 1]
  /\ pc' = [pc EXCEPT ![r] = "getSecret"]
  /\ result' = [result EXCEPT ![r] = ""]
  /\ ops' = [ops EXCEPT ![r] = <<>>]
  /\ pre' = [pre EXCEPT ![r] = secret]
  /\ existing' = [existing EXCEPT ![r] = NoSecret]
  /\ ca' = [ca EXCEPT ![r] = generateCA(0, 0, 0)]
  /\ use' = [use EXCEPT ![r] = Triple(Nil, Nil, Nil)]
  /\ vwc' = [vwc EXCEPT ![r] = NoConfig]
  /\ mwc' = [mwc EXCEPT ![r] = NoConfig]
  /\ UNCHANGED <<now, nextKey, cfg, butane, shared, disk>>

\* error checks that take every failed Get of the Secret for not-found
AfterSecretGet_anyErrorGenerates(ans) == IF ans = "ok" THEN "check" ELSE "generate"

\* what Ensure does with the answer of the Secret's Get: if err == nil ...
\* else if !apierrors.IsNotFound(err) { return } else { generate }
AfterSecretGet(ans) ==
  IF ans = "ok" THEN "check" ELSE IF ans = "notfound" THEN "generate" ELSE "fatal"

\* client.CoreV1().Secrets(cfg.Namespace).Get
GetSecret(r) ==
  /\ pc[r] = "getSecret"
  /\ \E fail \in BOOLEAN :
       LET ans == IF fail THEN "error" ELSE IF secret.name = "" THEN "notfound" ELSE "ok"
           todo == AfterSecretGet(ans)
       IN /\ Log(r, "Secrets.Get", ans, IF ans = "ok" THEN secret.resourceVersion ELSE 0)
          /\ existing' = [existing EXCEPT ![r] = IF ans = "ok" THEN secret ELSE @]
          /\ IF todo = "fatal"
             THEN Return(r, "getting secret")
             ELSE Goto(r, IF todo = "check" THEN "checkRenewal" ELSE "genCA")
  /\ UNCHANGED <<now, nextKey, cfg, butane, shared, disk, ca, use, vwc, mwc, pre, passes>>

\* if !needsRenewal(existing, cfg.RenewalThreshold)
CheckRenewal(r) ==
  /\ pc[r] = "checkRenewal"
  /\ IF ~needsRenewal(existing[r], cfg.RenewalThreshold, now)
     THEN /\ Log(r, "needsRenewal", "false", 0)
          /\ use' = [use EXCEPT ![r] =
               Triple(Lookup(existing[r].data, "ca.crt"),
                      Lookup(existing[r].data, "tls.crt"),
                      Lookup(existing[r].data, "tls.key"))]
          /\ Goto(r, "writeDisk")
     ELSE /\ Log(r, "needsRenewal", "true", 0)
          /\ UNCHANGED use
          /\ Goto(r, "genCA")
  /\ UNCHANGED <<now, nextKey, cfg, butane, shared, disk, existing, ca, vwc, mwc, pre, passes>>

\* caCert, caKey, caPEM, err := generateCA(cfg.CertValidity)
GenerateCA(r) ==
  /\ pc[r] = "genCA"
  /\ \E fail \in BOOLEAN :
       IF fail
       THEN /\ Log(r, "generateCA", "error", 0)
            /\ Return(r, "generating CA")
            /\ UNCHANGED <<ca, nextKey>>
       ELSE /\ Log(r, "generateCA", "ok", 0)
            /\ ca' = [ca EXCEPT ![r] = generateCA(cfg.CertValidity, nextKey, now)]
            /\ nextKey' = nextKey + 1
            /\ Goto(r, "genLeaf")
  /\ UNCHANGED <<now, cfg, butane, shared, disk, existing, use, vwc, mwc, pre, passes>>

\* serverCertPEM, serverKeyPEM, err := generateServerCert(caCert, caKey, dnsNames, cfg.CertValidity)
GenerateServerCert(r) ==
  /\ pc[r] = "genLeaf"
  /\ \E fail \in BOOLEAN :
       IF fail
       THEN /\ Log(r, "generateServerCert", "error", 0)
            /\ Return(r, "generating server cert")
            /\ UNCHANGED <<use, nextKey>>
       ELSE LET dnsNames == dnsNamesForService(cfg.ServiceName, cfg.Namespace)
                leaf == generateServerCert(ca[r].cert, ca[r].key, dnsNames,
                                           cfg.CertValidity, nextKey, now)
            IN /\ Log(r, "generateServerCert", "ok", 0)
               /\ use' = [use EXCEPT ![r] =
                    Triple(ca[r].certPEM, leaf.certPEM, leaf.keyPEM)]
               /\ nextKey' = nextKey + 1
               /\ Goto(r, "persist")
  /\ UNCHANGED <<now, cfg, butane, shared, disk, existing, ca, vwc, mwc, pre, passes>>

\* the store's answer to an Update carrying resourceVersion rv; an Update that
\* carries none (rv = 0) is unconditional
UpdateAnswer(obj, present, rv, fail) ==
  IF fail THEN "error"
  ELSE IF ~present THEN "notfound"
  ELSE IF rv # 0 /\ obj.resourceVersion # rv THEN "conflict"
  ELSE "ok"

\* an Update built without the resourceVersion of the Secret read
Token_unset(ex) == 0

\* secret.ResourceVersion = existing.ResourceVersion
Token(ex) == ex.resourceVersion

\* secret.ResourceVersion = existing.ResourceVersion; Secrets.Update
UpdateSecret(r) ==
  /\ pc[r] = "persist"
  /\ UseUpdate(existing[r])
  /\ \E fail \in BOOLEAN :
       LET rv == Token(existing[r])
           ans == UpdateAnswer(secret, secret.name # "", rv, fail)
           cur == secret.resourceVersion
       IN /\ Log(r, "Secrets.Update", ans, rv)
          /\ secret' = IF ans = "ok"
                       THEN SecretOf(IF secret.data = use[r] THEN cur ELSE cur + 1, use[r])
                       ELSE secret
          /\ IF Failed(ans)
             THEN Return(r, "updating secret")
             ELSE Goto(r, "writeDisk")
  /\ UNCHANGED <<now, nextKey, cfg, butane, vwcStore, mwcStore, disk, locals, pre, passes>>

\* Secrets.Create
CreateSecret(r) ==
  /\ pc[r] = "persist"
  /\ ~UseUpdate(existing[r])
  /\ \E fail \in BOOLEAN :
       LET ans == IF fail THEN "error"
                  ELSE IF secret.name # "" THEN "alreadyexists" ELSE "ok"
       IN /\ Log(r, "Secrets.Create", ans, 0)
          /\ secret' = IF ans = "ok" THEN SecretOf(1, use[r]) ELSE secret
          /\ IF Failed(ans)
             THEN Return(r, "creating secret")
             ELSE Goto(r, "writeDisk")
  /\ UNCHANGED <<now, nextKey, cfg, butane, vwcStore, mwcStore, disk, locals, pre, passes>>

\* a WriteFile that creates the file and writes nothing
WriteFile_empty(f, b, fail) == IF fail THEN f ELSE [exists |-> TRUE, data |-> Nil]

\* os.WriteFile(path, b, 0640); a failed call leaves the file as it was
WriteFile(f, b, fail) == IF fail THEN f ELSE File(b)

\* a writeCertsToDisk that drops the error of the second WriteFile
writeCertsToDisk_ignoresKeyError(d, certPEM, keyPEM, how) ==
  IF how = "mkdir" THEN [err |-> "creating cert dir", disk |-> d]
  ELSE IF how = "tls.crt"
  THEN [err |-> "writing tls.crt",
        disk |-> [d EXCEPT !.dir = TRUE, !.crt = WriteFile(@, certPEM, TRUE)]]
  ELSE [err |-> "",
        disk |-> [dir |-> TRUE, crt |-> WriteFile(d.crt, certPEM, FALSE),
                  key |-> WriteFile(d.key, keyPEM, how = "tls.key")]]

\* writeCertsToDisk(certDir, certPEM, keyPEM); how names the call that fails
writeCertsToDisk(d, certPEM, keyPEM, how) ==
  IF how = "mkdir" THEN [err |-> "creating cert dir", disk |-> d]
  ELSE IF how = "tls.crt"
  THEN [err |-> "writing tls.crt",
        disk |-> [d EXCEPT !.dir = TRUE, !.crt = WriteFile(@, certPEM, TRUE)]]
  ELSE IF how = "tls.key"
  THEN [err |-> "writing tls.key",
        disk |-> [d EXCEPT !.dir = TRUE, !.crt = WriteFile(@, certPEM, FALSE),
                           !.key = WriteFile(@, keyPEM, TRUE)]]
  ELSE [err |-> "",
        disk |-> [dir |-> TRUE, crt |-> WriteFile(d.crt, certPEM, FALSE),
                  key |-> WriteFile(d.key, keyPEM, FALSE)]]

WriteOutcomes == {"ok", "mkdir", "tls.crt", "tls.key"}

\* if err := writeCertsToDisk(cfg.CertDir, ...)
WriteCertsToDisk(r) ==
  /\ pc[r] = "writeDisk"
  /\ \E how \in WriteOutcomes :
       LET w == writeCertsToDisk(disk[r], use[r]["tls.crt"], use[r]["tls.key"], how)
       IN /\ disk' = [disk EXCEPT ![r] = w.disk]
          /\ Log(r, "writeCertsToDisk", IF w.err = "" THEN "ok" ELSE "error", 0)
          /\ IF Failed(IF w.err = "" THEN "ok" ELSE "error")
             THEN Return(r, "writing certs to disk")
             ELSE Goto(r, "getVWC")
  /\ UNCHANGED <<now, nextKey, cfg, butane, shared, locals, pre, passes>>

\* a loop that starts at the second entry
SetCABundle_skipFirst(obj, caBundle) ==
  [obj EXCEPT !.webhooks =
     [i \in 1..Len(@) |-> IF i = 1 THEN @[i] ELSE [@[i] EXCEPT !.caBundle = caBundle]]]

\* a patch that builds the entries anew and keeps the CA bundle only
SetCABundle_rebuild(obj, caBundle) ==
  [obj EXCEPT !.webhooks = [i \in 1..Len(@) |-> [name |-> 0, caBundle |-> caBundle]]]

\* a patch loop that sets nothing
SetCABundle_none(obj, caBundle) == obj

\* for i := range Webhooks { Webhooks[i].ClientConfig.CABundle = caBundle }
SetCABundle(obj, caBundle) ==
  [obj EXCEPT !.webhooks = [i \in 1..Len(@) |-> [@[i] EXCEPT !.caBundle = caBundle]]]

\* the object an accepted Update leaves in the store
Stored(cur, obj) ==
  [obj EXCEPT !.resourceVersion =
     IF cur.webhooks = obj.webhooks THEN cur.resourceVersion ELSE cur.resourceVersion + 1]

\* the store's answer to a Get
GetAnswer(obj, fail) ==
  IF fail THEN "error" ELSE IF ~obj.exists THEN "notfound" ELSE "ok"

\* error checks that treat a missing configuration of either kind as optional
AfterGet_bothOptional(kind, ans) ==
  IF ans = "ok" THEN "patch" ELSE IF ans = "notfound" THEN "skip" ELSE "fatal"

\* error checks that treat a missing configuration of either kind as fatal
AfterGet_bothMandatory(kind, ans) == IF ans = "ok" THEN "patch" ELSE "fatal"

\* error checks that let any failed Get of the mutating configuration pass
AfterGet_secondaryLenient(kind, ans) ==
  IF ans = "ok" THEN "patch" ELSE IF kind = "Mutating" THEN "skip" ELSE "fatal"

\* what patchWebhookConfig does with a Get's answer: the validating configuration
\* is mandatory (if err != nil), the mutating one optional (else if !IsNotFound(err))
AfterGet(kind, ans) ==
  IF ans = "ok" THEN "patch"
  ELSE IF kind = "Mutating" /\ ans = "notfound" THEN "skip"
  ELSE "fatal"

\* a patch step that updates either kind whatever its webhook list holds
IssuesUpdate_always(kind, obj) == TRUE

\* a patch step that skips the Update of either kind when the loop set nothing
IssuesUpdate_ifPatched(kind, obj) == Len(obj.webhooks) > 0

\* whether the Update follows the loop: the validating configuration is updated
\* only if the loop ran (updated := false ... if updated), the mutating one always
IssuesUpdate(kind, obj) == kind = "Mutating" \/ Len(obj.webhooks) > 0

\* ValidatingWebhookConfigurations().Get(ctx, name) and the loop over vwc.Webhooks
GetVWC(r) ==
  /\ pc[r] = "getVWC"
  /\ \E fail \in BOOLEAN :
       LET obj == vwcStore[cfg.WebhookConfigName]
           ans == GetAnswer(obj, fail)
           todo == AfterGet("Validating", ans)
           updated == IssuesUpdate("Validating", obj)
       IN /\ Log(r, "Validating.Get", ans, IF ans = "ok" THEN obj.resourceVersion ELSE 0)
          /\ vwc' = [vwc EXCEPT ![r] =
               IF todo = "patch" THEN SetCABundle(obj, use[r]["ca.crt"]) ELSE @]
          /\ IF todo = "fatal"
             THEN Return(r, "getting ValidatingWebhookConfiguration")
             ELSE Goto(r, IF todo = "patch" /\ updated THEN "updateVWC" ELSE "getMWC")
  /\ UNCHANGED <<now, nextKey, cfg, butane, shared, disk, existing, ca, use, mwc, pre, passes>>

\* if updated { ValidatingWebhookConfigurations().Update(ctx, vwc) }
UpdateVWC(r) ==
  /\ pc[r] = "updateVWC"
  /\ \E fail \in BOOLEAN :
       LET name == cfg.WebhookConfigName
           cur == vwcStore[name]
           ans == UpdateAnswer(cur, cur.exists, vwc[r].resourceVersion, fail)
       IN /\ Log(r, "Validating.Update", ans, vwc[r].resourceVersion)
          /\ vwcStore' = IF ans = "ok"
                         THEN [vwcStore EXCEPT ![name] = Stored(cur, vwc[r])]
                         ELSE vwcStore
          /\ IF Failed(ans)
             THEN Return(r, "updating ValidatingWebhookConfiguration")
             ELSE Goto(r, "getMWC")
  /\ UNCHANGED <<now, nextKey, cfg, butane, secret, mwcStore, disk, locals, pre, passes>>

\* MutatingWebhookConfigurations().Get(ctx, mwcName) and the loop over mwc.Webhooks
GetMWC(r) ==
  /\ pc[r] = "getMWC"
  /\ \E fail \in BOOLEAN :
       LET mwcName == mutatingWebhookName(cfg.WebhookConfigName)
           obj == mwcStore[mwcName]
           ans == GetAnswer(obj, fail)
           todo == AfterGet("Mutating", ans)
       IN /\ Log(r, "Mutating.Get", ans, IF ans = "ok" THEN obj.resourceVersion ELSE 0)
          /\ mwc' = [mwc EXCEPT ![r] =
               IF todo = "patch" THEN SetCABundle(obj, use[r]["ca.crt"]) ELSE @]
          /\ IF todo = "fatal"
             THEN Return(r, "getting MutatingWebhookConfiguration")
             ELSE IF todo = "skip" \/ ~IssuesUpdate("Mutating", obj)
             THEN Return(r, "ok")
             ELSE Goto(r, "updateMWC")
  /\ UNCHANGED <<now, nextKey, cfg, butane, shared, disk, existing, ca, use, vwc, pre, passes>>

\* MutatingWebhookConfigurations().Update(ctx, mwc); return nil
UpdateMWC(r) ==
  /\ pc[r] = "updateMWC"
  /\ \E fail \in BOOLEAN :
       LET mwcName == mutatingWebhookName(cfg.WebhookConfigName)
           cur == mwcStore[mwcName]
           ans == UpdateAnswer(cur, cur.exists, mwc[r].resourceVersion, fail)
       IN /\ Log(r, "Mutating.Update", ans, mwc[r].resourceVersion)
          /\ mwcStore' = IF ans = "ok"
                         THEN [mwcStore EXCEPT ![mwcName] = Stored(cur, mwc[r])]
                         ELSE mwcStore
          /\ IF Failed(ans)
             THEN Return(r, "updating MutatingWebhookConfiguration")
             ELSE Return(r, "ok")
  /\ UNCHANGED <<now, nextKey, cfg, butane, secret, vwcStore, disk, locals, pre, passes>>

\* time passes
Tick ==
  /\ now < MaxTime
  /\ now' = now + 1
  /\ UNCHANGED <<nextKey, cfg, butane, shared, disk, pc, locals, result, ops, pre, passes>>

Ensure(r) ==
  \/ StartEnsure(r)
  \/ GetSecret(r)
  \/ CheckRenewal(r)
  \/ GenerateCA(r)
  \/ GenerateServerCert(r)
  \/ UpdateSecret(r)
  \/ CreateSecret(r)
  \/ WriteCertsToDisk(r)
  \/ GetVWC(r)
  \/ UpdateVWC(r)
  \/ GetMWC(r)
  \/ UpdateMWC(r)

\* one replica
Next == Tick \/ Ensure(1)

Spec == Init /\ [][Next]_vars

\* two replicas start at once against the same store; each calls Ensure once
InitRace ==
  /\ Init
  /\ secret.name # "" => secret.data \in IssuedData
  /\ vwcStore[cfg.WebhookConfigName].exists
  /\ Len(vwcStore[cfg.WebhookConfigName].webhooks) = MaxHooks
  /\ LET m == mwcStore[mutatingWebhookName(cfg.WebhookConfigName)]
     IN m.exists => Len(m.webhooks) = MaxHooks

NextRace == Tick \/ \E r \in AllReplicas : pc[r] # "done" /\ Ensure(r)

SpecRace == InitRace /\ [][NextRace]_vars

(***************************************************************************)
(* Single calls.  SpecStep starts Ensure just before one of its calls, in  *)
(* any state a pass can be in there, with inputs drawn from wider sets     *)
(* than the end-to-end specifications afford, and takes the call.          *)
(***************************************************************************)
MaxSegs == 3

\* a key absent from Secret.Data
Absent == [fmt |-> "absent", typ |-> "", der |-> NoDER]

DataOf(caPEM, certPEM, keyPEM) ==
  LET t == Triple(caPEM, certPEM, keyPEM)
  IN [k \in {x \in DOMAIN t : t[x] # Absent} |-> t[k]]

KeyPEM(k) == EncodeToMemory("RSA PRIVATE KEY", MarshalPKCS1PrivateKey(k))

StepLeaves ==
  {Absent, Nil, RawText, EncodeToMemory("CERTIFICATE", JunkDER), KeyPEM(OldLeafKey),
   EncodeToMemory("X509 CERTIFICATE", OldLeaf(MaxTime + MaxThreshold).certPEM.der)}
  \cup {OldLeaf(na).certPEM : na \in 0..(MaxTime + MaxThreshold)}

StepAuthorities == {Absent, OldCA(0).certPEM, OtherCA(MaxTime + MaxThreshold).certPEM}

StepKeys == {Absent, KeyPEM(OldLeafKey), KeyPEM(OtherKey)}

StepSecrets ==
  {SecretOf(1, DataOf(c, l, k)) : c \in StepAuthorities, l \in StepLeaves, k \in StepKeys}

StepServices == {ServiceName, <<"a">>, <<"a", ".", "b">>, <<>>}
StepNamespaces == {Namespace, <<"b">>, <<"b", ".", "c">>}

Segments == {old, new, Slice(old, 0, Len(old) - 1), <<"g">>, <<"v">>, <<"-">>}

RECURSIVE NamesOf(_)
NamesOf(n) ==
  IF n = 0 THEN {<<>>}
  ELSE NamesOf(n - 1) \cup {a \o b : a \in NamesOf(n - 1), b \in Segments}

StepNames == NamesOf(MaxSegs)

\* the positions, counted from 0, at which the marker occurs in a name
Occurrences(name) ==
  {i \in 0..(Len(name) - Len(old)) : Slice(name, i, i + Len(old)) = old}

ReplaceAt(name, i) ==
  Slice(name, 0, i) \o new \o Slice(name, i + Len(old), Len(name))

\* the names a mutating configuration may have been installed under
Candidates(name) == {name} \cup {ReplaceAt(name, i) : i \in Occurrences(name)}

StepDisks ==
  {EmptyDisk,
   [EmptyDisk EXCEPT !.dir = TRUE],
   [dir |-> TRUE, crt |-> File(OldLeaf(0).certPEM), key |-> File(KeyPEM(OtherKey))]}

\* what every entry below has in common
StepCommon ==
  /\ now \in 0..MaxTime
  /\ result = [r \in AllReplicas |-> ""]
  /\ passes = [r \in AllReplicas |-> 1]
  /\ vwc = [r \in AllReplicas |-> NoConfig]
  /\ mwc = [r \in AllReplicas |-> NoConfig]
  /\ ButaneIdle

\* both replicas have read a Secret with the same tls.crt: if !needsRenewal(...)
InitCheckRenewal ==
  /\ StepCommon
  /\ nextKey = FirstFreshKey
  /\ cfg \in Configs
  /\ existing \in [AllReplicas -> StepSecrets]
  /\ Lookup(existing[1].data, "tls.crt") = Lookup(existing[2].data, "tls.crt")
  /\ secret = existing[2]
  /\ pre = existing
  /\ vwcStore = [n \in Names |-> NoConfig]
  /\ mwcStore = [n \in Names |-> NoConfig]
  /\ disk = [r \in AllReplicas |-> EmptyDisk]
  /\ pc = [r \in AllReplicas |-> "checkRenewal"]
  /\ ca = [r \in AllReplicas |-> generateCA(0, 0, 0)]
  /\ use = [r \in AllReplicas |-> Triple(Nil, Nil, Nil)]
  /\ ops = [r \in AllReplicas |-> <<Call("Secrets.Get", "ok", existing[r].resourceVersion)>>]

\* both replicas found no Secret and have generated an authority: generateServerCert
InitGenerateServerCert ==
  /\ StepCommon
  /\ nextKey = FirstFreshKey + 2
  /\ cfg \in [ServiceName : StepServices, Namespace : StepNamespaces,
              WebhookConfigName : PrimaryNames, CertValidity : 1..MaxValidity,
              RenewalThreshold : {MaxThreshold}]
  /\ existing = [r \in AllReplicas |-> NoSecret]
  /\ secret = NoSecret
  /\ pre = existing
  /\ vwcStore = [n \in Names |-> NoConfig]
  /\ mwcStore = [n \in Names |-> NoConfig]
  /\ disk = [r \in AllReplicas |-> EmptyDisk]
  /\ pc = [r \in AllReplicas |-> "genLeaf"]
  /\ ca = [r \in AllReplicas |-> generateCA(cfg.CertValidity, FirstFreshKey + r - 1, now)]
  /\ use = [r \in AllReplicas |-> Triple(Nil, Nil, Nil)]
  /\ ops = [r \in AllReplicas |->
       <<Call("Secrets.Get", "notfound", 0), Call("generateCA", "ok", 0)>>]

\* replica 1 reuses a Secret whose leaf outlives every threshold, over a directory
\* in any state: writeCertsToDisk
InitWriteCertsToDisk ==
  /\ StepCommon
  /\ nextKey = FirstFreshKey
  /\ cfg \in Configs
  /\ secret \in StepSecrets
  /\ Lookup(secret.data, "tls.crt").der = OldLeaf(MaxTime + MaxThreshold).certPEM.der
  /\ existing = [r \in AllReplicas |-> IF r = 1 THEN secret ELSE NoSecret]
  /\ pre = existing
  /\ vwcStore = [n \in Names |-> NoConfig]
  /\ mwcStore = [n \in Names |-> NoConfig]
  /\ \E d \in StepDisks : disk = [r \in AllReplicas |-> IF r = 1 THEN d ELSE EmptyDisk]
  /\ pc = [r \in AllReplicas |-> IF r = 1 THEN "writeDisk" ELSE "idle"]
  /\ ca = [r \in AllReplicas |-> generateCA(0, 0, 0)]
  /\ use = [r \in AllReplicas |->
       IF r = 1
       THEN Triple(Lookup(secret.data, "ca.crt"), Lookup(secret.data, "tls.crt"),
                   Lookup(secret.data, "tls.key"))
       ELSE Triple(Nil, Nil, Nil)]
  /\ ops = [r \in AllReplicas |->
       IF r = 1
       THEN <<Call("Secrets.Get", "ok", 1), Call("needsRenewal", "false", 0)>>
       ELSE <<>>]

\* replica 1 has patched a validating configuration of any name; a mutating
\* configuration, its webhook named after it, is installed under every candidate
\* name: mwcName := mutatingWebhookName(name); MutatingWebhookConfigurations().Get
InitGetMWC ==
  /\ StepCommon
  /\ nextKey = FirstFreshKey
  /\ cfg \in [ServiceName : {ServiceName}, Namespace : {Namespace},
              WebhookConfigName : StepNames, CertValidity : {MaxValidity},
              RenewalThreshold : {MaxThreshold}]
  /\ secret = SecretOf(1, GoodData(MaxTime + MaxThreshold))
  /\ existing = [r \in AllReplicas |-> IF r = 1 THEN secret ELSE NoSecret]
  /\ pre = existing
  /\ vwcStore = [n \in {cfg.WebhookConfigName} |->
       [exists |-> TRUE, resourceVersion |-> 1, webhooks |-> <<>>]]
  /\ mwcStore = [n \in Candidates(cfg.WebhookConfigName) |->
       [exists |-> TRUE, resourceVersion |-> 1, webhooks |-> <<Hook(n, Nil)>>]]
  /\ disk = [r \in AllReplicas |->
       IF r = 1
       THEN [dir |-> TRUE, crt |-> File(secret.data["tls.crt"]),
             key |-> File(secret.data["tls.key"])]
       ELSE EmptyDisk]
  /\ pc = [r \in AllReplicas |-> IF r = 1 THEN "getMWC" ELSE "idle"]
  /\ ca = [r \in AllReplicas |-> generateCA(0, 0, 0)]
  /\ use = [r \in AllReplicas |-> IF r = 1 THEN secret.data ELSE Triple(Nil, Nil, Nil)]
  /\ ops = [r \in AllReplicas |->
       IF r = 1
       THEN <<Call("Secrets.Get", "ok", 1), Call("needsRenewal", "false", 0),
              Call("writeCertsToDisk", "ok", 0), Call("Validating.Get", "ok", 1)>>
       ELSE <<>>]

InitStep ==
  \/ InitCheckRenewal
  \/ InitGenerateServerCert
  \/ InitWriteCertsToDisk
  \/ InitGetMWC

NextStep ==
  \/ \E r \in AllReplicas : CheckRenewal(r)
  \/ \E r \in AllReplicas : GenerateServerCert(r)
  \/ WriteCertsToDisk(1)
  \/ GetMWC(1)

SpecStep == InitStep /\ [][NextStep]_vars

(***************************************************************************)
(* ButaneConfigReconciler.Reconcile, one action per call it makes, next to *)
(* users who create, modify and delete the ButaneConfig between any two of *)
(* its calls.  Requests for one object are served one at a time.           *)
(***************************************************************************)
RCall(o, res) == [op |-> o, res |-> res]

\* return ctrl.Result{}, err: a nil error is a successful return
Returned(err) == IF err = "" THEN "ok" ELSE err

\* Reconcile returns e
RReturn(e, call) ==
  rec' = [rec EXCEPT !.pc = "done", !.result = Returned(e), !.ops = Append(@, call)]

\* a nil check that never fires
MissingConfig_never(rawConfig) == FALSE

\* if rawConfig == nil
MissingConfig(rawConfig) == rawConfig.nil

\* a check of the error alone
ConversionFailed_errorOnly(t) == t.err # ""

\* if err != nil || len(rpt.Entries) > 0
ConversionFailed(t) == t.err # "" \/ t.entries > 0

\* a Secret built without the owner reference
NewSecret_unowned(obj, ignitionConfig) ==
  [exists |-> TRUE, name |-> SecretNameFor(obj.name), namespace |-> obj.namespace,
   userdata |-> ignitionConfig, owner |-> NoOwner, resourceVersion |-> 0]

\* &corev1.Secret{...} followed by controllerutil.SetControllerReference
NewSecret(obj, ignitionConfig) ==
  [exists |-> TRUE, name |-> SecretNameFor(obj.name), namespace |-> obj.namespace,
   userdata |-> ignitionConfig,
   owner |-> [uid |-> obj.uid, name |-> obj.name, controller |-> TRUE],
   resourceVersion |-> 0]

\* a Create whose already-exists answer is taken for success
AfterCreate_existsIsFine(ans) ==
  IF ans \in {"ok", "alreadyexists"} THEN "status" ELSE "fatal"

\* a Create whose error is logged and passed over
AfterCreate_errorIsFine(ans) ==
  IF ans = "alreadyexists" THEN "update" ELSE "status"

\* the branches after r.Create
AfterCreate(ans) ==
  IF ans = "ok" THEN "status"
  ELSE IF ans = "alreadyexists" THEN "update"
  ELSE "fatal"

\* the object the store keeps after a Create or an Update of obj over old: the
\* revision advances when the content changes
StoredSecret(cur, obj) ==
  IF [obj EXCEPT !.resourceVersion = cur.resourceVersion] = cur THEN cur
  ELSE [obj EXCEPT !.resourceVersion = cur.resourceVersion + 1]

\* a user creates the ButaneConfig or replaces its spec.config; where the
\* validating webhook is registered the API server asks the validator first and
\* refuses the request the validator rejects
ApplyButane(raw) ==
  /\ edits < MaxEdits
  /\ bc.exists => raw # bc.raw
  /\ \E webhook \in BOOLEAN :
       LET obj == IF bc.exists
                  THEN [bc EXCEPT !.raw = raw, !.resourceVersion = @ + 1]
                  ELSE [NoButane EXCEPT !.exists = TRUE, !.raw = raw,
                                        !.uid = bc.resourceVersion + 1,
                                        !.resourceVersion = bc.resourceVersion + 1]
           review == Review(IF bc.exists THEN "update" ELSE "create", bc, obj)
       IN /\ adm' = IF webhook THEN review ELSE adm
          /\ bc' = IF webhook /\ review.err # "" THEN bc ELSE obj
  /\ edits' = edits + 1
  /\ UNCHANGED <<certs, ign, rec>>

\* a user deletes the ButaneConfig
DeleteButane ==
  /\ edits < MaxEdits
  /\ bc.exists
  /\ \E webhook \in BOOLEAN :
       LET review == Review("delete", bc, NoButane)
       IN /\ adm' = IF webhook THEN review ELSE adm
          /\ bc' = IF webhook /\ review.err # "" THEN bc
                   ELSE [NoButane EXCEPT !.resourceVersion = bc.resourceVersion + 1]
  /\ edits' = edits + 1
  /\ UNCHANGED <<certs, ign, rec>>

\* the controller hands Reconcile a request for the ButaneConfig
StartReconcile ==
  /\ rec.pc \in {"idle", "done"}
  /\ rec.runs < MaxReconciles
  /\ rec' = [IdleReconcile EXCEPT !.pc = "get", !.runs = rec.runs + 1]
  /\ UNCHANGED <<certs, adm, bc, ign, edits>>

\* r.Get(ctx, req.NamespacedName, &butaneConfig)
ReconcileGet ==
  /\ rec.pc = "get"
  /\ \E fail \in BOOLEAN :
       LET ans == IF fail THEN "error" ELSE IF bc.exists THEN "ok" ELSE "notfound"
       IN IF ans = "ok"
          THEN rec' = [rec EXCEPT !.pc = "translate", !.obj = bc,
                                  !.ops = Append(@, RCall("Get", ans))]
          ELSE RReturn(IF ans = "notfound" THEN "" ELSE "get", RCall("Get", ans))
  /\ UNCHANGED <<certs, adm, bc, ign, edits>>

\* the nil check on spec.config.Raw and config.TranslateBytes
ReconcileTranslate ==
  /\ rec.pc = "translate"
  /\ LET rawConfig == rec.obj.raw
         t == TranslateBytes(rawConfig)
     IN IF MissingConfig(rawConfig)
        THEN RReturn("missing Config in ButaneConfig", RCall("rawConfig", "nil"))
        ELSE IF ConversionFailed(t)
        THEN RReturn(t.err, RCall("TranslateBytes", "failed"))
        ELSE rec' = [rec EXCEPT !.pc = "setOwner", !.out = t.out,
                                !.ops = Append(@, RCall("TranslateBytes", "ok"))]
  /\ UNCHANGED <<certs, adm, bc, ign, edits>>

\* the Secret literal and controllerutil.SetControllerReference
ReconcileSetOwner ==
  /\ rec.pc = "setOwner"
  /\ \E fail \in BOOLEAN :
       IF fail
       THEN RReturn("set owner reference", RCall("SetControllerReference", "error"))
       ELSE rec' = [rec EXCEPT !.pc = "create", !.secret = NewSecret(rec.obj, rec.out),
                               !.ops = Append(@, RCall("SetControllerReference", "ok"))]
  /\ UNCHANGED <<certs, adm, bc, ign, edits>>

\* r.Create(ctx, secret)
ReconcileCreate ==
  /\ rec.pc = "create"
  /\ \E fail \in BOOLEAN :
       LET n == rec.secret.name
           ans == IF fail THEN "error"
                  ELSE IF ign[n].exists THEN "alreadyexists" ELSE "ok"
           todo == AfterCreate(ans)
       IN /\ ign' = IF ans = "ok" THEN [ign EXCEPT ![n] = StoredSecret(ign[n], rec.secret)]
                      ELSE ign
          /\ IF todo = "fatal" THEN RReturn("create", RCall("Create", ans))
             ELSE rec' = [rec EXCEPT !.pc = todo, !.ops = Append(@, RCall("Create", ans))]
  /\ UNCHANGED <<certs, adm, bc, edits>>

\* r.Update(ctx, secret): the Secret built above carries no resourceVersion
ReconcileUpdate ==
  /\ rec.pc = "update"
  /\ \E fail \in BOOLEAN :
       LET n == rec.secret.name
           ans == UpdateAnswer(ign[n], ign[n].exists, rec.secret.resourceVersion, fail)
       IN /\ ign' = IF ans = "ok" THEN [ign EXCEPT ![n] = StoredSecret(ign[n], rec.secret)]
                      ELSE ign
          /\ IF ans = "ok"
             THEN rec' = [rec EXCEPT !.pc = "status", !.ops = Append(@, RCall("Update", ans))]
             ELSE RReturn("update", RCall("Update", ans))
  /\ UNCHANGED <<certs, adm, bc, edits>>

\* butaneConfig.Status.SecretName = secretName; r.Status().Update(ctx, &butaneConfig)
ReconcileStatus ==
  /\ rec.pc = "status"
  /\ \E fail \in BOOLEAN :
       LET ans == IF fail THEN "error"
                  ELSE IF ~bc.exists \/ bc.uid # rec.obj.uid THEN "notfound"
                  ELSE IF bc.resourceVersion # rec.obj.resourceVersion THEN "conflict"
                  ELSE "ok"
       IN /\ bc' = IF ans = "ok"
                   THEN [bc EXCEPT !.secretName = rec.secret.name,
                                   !.resourceVersion = @ + 1]
                   ELSE bc
          /\ RReturn(IF ans = "ok" THEN "" ELSE "status", RCall("Status.Update", ans))
  /\ UNCHANGED <<certs, adm, ign, edits>>

Reconcile ==
  \/ ReconcileGet
  \/ ReconcileTranslate
  \/ ReconcileSetOwner
  \/ ReconcileCreate
  \/ ReconcileUpdate
  \/ ReconcileStatus

\* nothing of the certificate manager is running
InitReconcile ==
  /\ Init
  /\ cfg = CHOOSE c \in Configs : TRUE
  /\ secret = NoSecret
  /\ \A n \in Names : ~vwcStore[n].exists /\ ~mwcStore[n].exists

NextReconcile ==
  \/ \E raw \in RawConfigs : ApplyButane(raw)
  \/ DeleteButane
  \/ StartReconcile
  \/ Reconcile

SpecReconcile == InitReconcile /\ [][NextReconcile]_vars

(***************************************************************************)
(* Ensure called again: one replica makes several passes, from a store     *)
(* with no Secret or an expired one, with a validity that may exceed the   *)
(* threshold; the validating configuration may be missing at first and is  *)
(* created once Ensure has reported it missing.                            *)
(***************************************************************************)
AgainConfigs ==
  [ServiceName : {ServiceName},
   Namespace : {Namespace},
   WebhookConfigName : PrimaryNames,
   CertValidity : 1..(MaxValidity + 1),
   RenewalThreshold : 1..MaxThreshold]

\* the configuration an administrator creates; it is created after the objects
\* the store began with, hence at a later revision
InstalledConfig == [exists |-> TRUE, resourceVersion |-> 3, webhooks |-> InitHooks(MaxHooks)]

InitAgain ==
  /\ now = 0
  /\ nextKey = FirstFreshKey
  /\ cfg \in AgainConfigs
  /\ secret \in {NoSecret, SecretOf(1, GoodData(0))}
  /\ \E v \in {NoConfig, [InstalledConfig EXCEPT !.resourceVersion = 1]},
        m \in {NoConfig, [InstalledConfig EXCEPT !.resourceVersion = 1]} :
       /\ vwcStore = [n \in Names |-> IF n = cfg.WebhookConfigName THEN v ELSE NoConfig]
       /\ mwcStore = [n \in Names |->
            IF n = mutatingWebhookName(cfg.WebhookConfigName) THEN m ELSE NoConfig]
  /\ disk = [r \in AllReplicas |-> EmptyDisk]
  /\ pc = [r \in AllReplicas |-> "idle"]
  /\ existing = [r \in AllReplicas |-> NoSecret]
  /\ ca = [r \in AllReplicas |-> generateCA(0, 0, 0)]
  /\ use = [r \in AllReplicas |-> Triple(Nil, Nil, Nil)]
  /\ vwc = [r \in AllReplicas |-> NoConfig]
  /\ mwc = [r \in AllReplicas |-> NoConfig]
  /\ result = [r \in AllReplicas |-> ""]
  /\ ops = [r \in AllReplicas |-> <<>>]
  /\ pre = [r \in AllReplicas |-> NoSecret]
  /\ passes = [r \in AllReplicas |-> 0]
  /\ ButaneIdle

\* the administrator creates the validating configuration Ensure found missing
InstallPrimary ==
  /\ pc[1] = "done"
  /\ \E i \in 1..Len(ops[1]) : ops[1][i] = Call("Validating.Get", "notfound", 0)
  /\ ~vwcStore[cfg.WebhookConfigName].exists
  /\ vwcStore' = [vwcStore EXCEPT ![cfg.WebhookConfigName] = InstalledConfig]
  /\ UNCHANGED <<now, nextKey, cfg, butane, secret, mwcStore, disk, pc, locals,
                 result, ops, pre, passes>>

NextAgain == Tick \/ Ensure(1) \/ InstallPrimary

SpecAgain == InitAgain /\ [][NextAgain]_vars

(***************************************************************************)
(* Vocabulary of the properties.                                           *)
(***************************************************************************)
Done(r) == pc[r] = "done"

Ok(r) == Done(r) /\ result[r] = "ok"

Did(r, o, res) == \E i \in 1..Len(ops[r]) : ops[r][i].op = o /\ ops[r][i].res = res

Called(r, o) == \E i \in 1..Len(ops[r]) : ops[r][i].op = o

Primary == vwcStore[cfg.WebhookConfigName]

Secondary == mwcStore[mutatingWebhookName(cfg.WebhookConfigName)]

AllBundles(obj, b) == \A i \in 1..Len(obj.webhooks) : obj.webhooks[i].caBundle = b

IsCertPEM(b) == b.fmt = "pem" /\ b.der.asn = "cert"

\* the record carries a well-formed leaf certificate
HasLeaf(sec) == "tls.crt" \in DOMAIN sec.data /\ IsCertPEM(sec.data["tls.crt"])

\* notAfter - t of the record's leaf
Remaining(sec, t) == sec.data["tls.crt"].der.notAfter - t

\* the chain leaf <- authority verifies for server authentication (the validity
\* windows apart)
IssuedBy(leafPEM, caPEM) ==
  /\ IsCertPEM(leafPEM) /\ IsCertPEM(caPEM)
  /\ leafPEM.der.signer = caPEM.der.key
  /\ caPEM.der.isCA /\ "certSign" \in caPEM.der.keyUsage
  /\ ~leafPEM.der.isCA /\ "serverAuth" \in leafPEM.der.extKeyUsage

\* what tls.LoadX509KeyPair accepts
KeyPair(certPEM, keyPEM) ==
  /\ IsCertPEM(certPEM) /\ certPEM.typ = "CERTIFICATE"
  /\ keyPEM.fmt = "pem" /\ keyPEM.der.asn = "pkcs1"
  /\ keyPEM.der.key = certPEM.der.key

\* no call of the pass so far failed, and the validating configuration was there
AllStepsSucceeded(r) ==
  \A i \in 1..Len(ops[r]) :
    \/ ops[r][i].res \in {"ok", "true", "false"}
    \/ ops[r][i].res = "notfound" /\ ops[r][i].op \in {"Secrets.Get", "Mutating.Get"}

DiskMatches(r, sec) ==
  /\ disk[r].dir
  /\ disk[r].crt = File(Lookup(sec.data, "tls.crt"))
  /\ disk[r].key = File(Lookup(sec.data, "tls.key"))

(***************************************************************************)
(* C1.  Cold start: a pass that began with no Secret in the store, found   *)
(* the validating configuration and had every call succeed returns         *)
(* success; the Secret then exists with non-empty ca.crt, tls.crt and      *)
(* tls.key, the files tls.crt and tls.key hold exactly the Secret's bytes, *)
(* and every entry of the validating configuration has a non-empty CA      *)
(* bundle.                                                                 *)
(***************************************************************************)
C1_ColdStart ==
  (Done(1) /\ pre[1] = NoSecret /\ AllStepsSucceeded(1)) =>
    /\ result[1] = "ok"
    /\ secret.name # ""
    /\ \A k \in {"ca.crt", "tls.crt", "tls.key"} :
         k \in DOMAIN secret.data /\ len(secret.data[k]) > 0
    /\ DiskMatches(1, secret)
    /\ Primary.exists
    /\ \A i \in 1..Len(Primary.webhooks) : len(Primary.webhooks[i].caBundle) > 0

C1_Witness ==
  /\ Ok(1) /\ pre[1] = NoSecret /\ Did(1, "Secrets.Create", "ok")
  /\ Len(Primary.webhooks) > 0

(***************************************************************************)
(* C2.  Valid path: once a pass has read a Secret whose leaf is well       *)
(* formed with remaining validity >= the threshold, it calls neither       *)
(* Create nor Update on the Secret, which keeps its fields and its         *)
(* resourceVersion; and when the pass returns success the two files hold   *)
(* the Secret's tls.crt and tls.key and every webhook entry carries its    *)
(* ca.crt.                                                                 *)
(***************************************************************************)
C2_ValidPath ==
  ( /\ pc[1] \notin {"idle", "getSecret", "checkRenewal"}
    /\ existing[1].name # ""
    /\ HasLeaf(existing[1])
    /\ Remaining(existing[1], now) >= cfg.RenewalThreshold ) =>
    /\ ~Called(1, "Secrets.Create") /\ ~Called(1, "Secrets.Update")
    /\ ~Called(1, "generateCA")
    /\ secret = pre[1] /\ secret = existing[1]
    /\ Ok(1) =>
         /\ Did(1, "writeCertsToDisk", "ok")
         /\ DiskMatches(1, pre[1])
         /\ AllBundles(Primary, Lookup(pre[1].data, "ca.crt"))
         /\ AllBundles(Secondary, Lookup(pre[1].data, "ca.crt"))

C2_Witness ==
  /\ Ok(1) /\ passes[1] = 1
  /\ HasLeaf(existing[1]) /\ Remaining(existing[1], now) >= cfg.RenewalThreshold
  /\ Len(Primary.webhooks) > 0
  /\ Did(1, "Validating.Update", "ok")
  /\ disk[1].crt = File(Lookup(secret.data, "tls.crt"))

(***************************************************************************)
(* C3.  Forced renewal: when a pass that found the Secret due for renewal  *)
(* returns success, the Secret's tls.crt differs from the one before the   *)
(* call, its ca.crt is the authority generated in this pass and not the    *)
(* previous one, and the new leaf is issued by the authority stored in the *)
(* same Secret.                                                            *)
(***************************************************************************)
C3_ForcedRenewal ==
  (Ok(1) /\ Did(1, "needsRenewal", "true")) =>
    /\ secret.data["tls.crt"] # Lookup(pre[1].data, "tls.crt")
    /\ secret.data["ca.crt"] # Lookup(pre[1].data, "ca.crt")
    /\ secret.data["ca.crt"] = ca[1].certPEM
    /\ ca[1].key >= FirstFreshKey
    /\ IssuedBy(secret.data["tls.crt"], secret.data["ca.crt"])
    /\ secret.resourceVersion = pre[1].resourceVersion + 1

C3_Witness ==
  /\ Ok(1) /\ Did(1, "needsRenewal", "true")
  /\ HasLeaf(pre[1]) /\ Remaining(pre[1], 0) < cfg.RenewalThreshold
  /\ IssuedBy(Lookup(pre[1].data, "tls.crt"), Lookup(pre[1].data, "ca.crt"))

(***************************************************************************)
(* C4.  Whenever Ensure returns success, tls.crt and tls.key on disk form  *)
(* a key pair the server can load, whatever the Secret held at the start.  *)
(***************************************************************************)
C4_KeyPairOnSuccess ==
  Ok(1) =>
    /\ disk[1].crt.exists /\ disk[1].key.exists
    /\ KeyPair(disk[1].crt.data, disk[1].key.data)

(***************************************************************************)
(* C5.  After a successful pass of a single caller the projections equal   *)
(* the record: the two files hold the Secret's tls.crt and tls.key, and    *)
(* every entry of the validating configuration and of the mutating one,    *)
(* when it exists, carries the Secret's ca.crt.                            *)
(***************************************************************************)
C5_ProjectionsMatch ==
  Ok(1) =>
    /\ secret.name # ""
    /\ DiskMatches(1, secret)
    /\ Primary.exists /\ AllBundles(Primary, Lookup(secret.data, "ca.crt"))
    /\ Secondary.exists => AllBundles(Secondary, Lookup(secret.data, "ca.crt"))

C5_Witness ==
  /\ Ok(1) /\ passes[1] = 1 /\ Did(1, "needsRenewal", "false")
  /\ Len(Primary.webhooks) > 0
  /\ Secondary.exists /\ Len(Secondary.webhooks) > 0

(***************************************************************************)
(* C6.  If the validating configuration does not exist, an Ensure call     *)
(* never returns success; a pass that gets as far as fetching it returns   *)
(* the error of that Get and goes no further, on the reuse path and on the *)
(* regeneration path.                                                      *)
(***************************************************************************)
C6_MissingPrimaryIsFatal ==
  (Done(1) /\ ~Primary.exists) =>
    /\ result[1] \notin {"", "ok"}
    /\ Called(1, "Validating.Get") =>
         /\ result[1] = "getting ValidatingWebhookConfiguration"
         /\ ~Called(1, "Validating.Update") /\ ~Called(1, "Mutating.Get")
    /\ \A n \in Names : ~vwcStore[n].exists

\* a first pass regenerated and failed at the Get, a second one reused and failed again
C6_Witness ==
  /\ Done(1) /\ passes[1] = 2 /\ ~Primary.exists
  /\ Did(1, "needsRenewal", "false") /\ Did(1, "Validating.Get", "notfound")
  /\ Lookup(secret.data, "ca.crt").der.key >= FirstFreshKey

(***************************************************************************)
(* C7.  If the mutating configuration does not exist under the derived     *)
(* name while the validating one exists and every other call succeeds,     *)
(* Ensure returns success, every entry of the validating configuration     *)
(* carries the authority certificate, and the mutating configuration is    *)
(* neither reported as an error nor created.                               *)
(***************************************************************************)
C7_MissingSecondaryIsSkipped ==
  /\ (Done(1) /\ Primary.exists /\ ~Secondary.exists /\ AllStepsSucceeded(1)) =>
       /\ result[1] = "ok"
       /\ Did(1, "Mutating.Get", "notfound")
  /\ (Done(1) /\ Did(1, "Mutating.Get", "notfound")) =>
       /\ result[1] = "ok"
       /\ ~Called(1, "Mutating.Update")
       /\ AllBundles(Primary, use[1]["ca.crt"])
       /\ use[1]["ca.crt"] = Lookup(secret.data, "ca.crt")
       /\ \A n \in Names : ~mwcStore[n].exists

C7_Witness ==
  /\ Ok(1) /\ Did(1, "Mutating.Get", "notfound")
  /\ Len(Primary.webhooks) > 0
  /\ len(Primary.webhooks[1].caBundle) > 0

(***************************************************************************)
(* C8.  The stages of a pass run in the order Secret persist, filesystem   *)
(* write, validating patch, mutating patch; a failed call is the last call *)
(* of its pass and makes Ensure return an error.  The disk is written only *)
(* by a writeCertsToDisk call made after the persist stage succeeded or    *)
(* was skipped, and a webhook configuration only by an Update made after   *)
(* writeCertsToDisk succeeded.                                             *)
(***************************************************************************)
Stage(o) ==
  CASE o = "Secrets.Get" -> 1
    [] o = "needsRenewal" -> 2
    [] o = "generateCA" -> 3
    [] o = "generateServerCert" -> 4
    [] o \in {"Secrets.Update", "Secrets.Create"} -> 5
    [] o = "writeCertsToDisk" -> 6
    [] o = "Validating.Get" -> 7
    [] o = "Validating.Update" -> 8
    [] o = "Mutating.Get" -> 9
    [] o = "Mutating.Update" -> 10

IsFailure(c) ==
  ~ \/ c.res \in {"ok", "true", "false"}
    \/ c.res = "notfound" /\ c.op \in {"Secrets.Get", "Mutating.Get"}

C8_State ==
  /\ \A i, j \in 1..Len(ops[1]) : i < j => Stage(ops[1][i].op) < Stage(ops[1][j].op)
  /\ \A i \in 1..Len(ops[1]) :
       IsFailure(ops[1][i]) =>
         /\ i = Len(ops[1])
         /\ Done(1) /\ result[1] \notin {"", "ok"}

Persisted(r) ==
  \/ Did(r, "needsRenewal", "false")
  \/ Did(r, "Secrets.Update", "ok")
  \/ Did(r, "Secrets.Create", "ok")

C8_Step ==
  /\ secret' # secret =>
       /\ ~Called(1, "writeCertsToDisk") /\ ~Called(1, "Validating.Get")
       /\ \E res \in {"ok"} :
            \/ ops'[1] = Append(ops[1], Call("Secrets.Update", res, Token(existing[1])))
            \/ ops'[1] = Append(ops[1], Call("Secrets.Create", res, 0))
  /\ disk' # disk =>
       /\ Persisted(1) /\ AllStepsSucceeded(1)
       /\ ~Called(1, "Validating.Get") /\ ~Called(1, "Mutating.Get")
       /\ \E res \in {"ok", "error"} :
            ops'[1] = Append(ops[1], Call("writeCertsToDisk", res, 0))
  /\ vwcStore' # vwcStore =>
       /\ Persisted(1) /\ Did(1, "writeCertsToDisk", "ok") /\ AllStepsSucceeded(1)
       /\ ~Called(1, "Mutating.Get")
       /\ ops'[1] = Append(ops[1], Call("Validating.Update", "ok", vwc[1].resourceVersion))
  /\ mwcStore' # mwcStore =>
       /\ Persisted(1) /\ Did(1, "writeCertsToDisk", "ok") /\ AllStepsSucceeded(1)
       /\ Did(1, "Validating.Get", "ok")
       /\ ops'[1] = Append(ops[1], Call("Mutating.Update", "ok", mwc[1].resourceVersion))

C8_StagesInOrder == []C8_State /\ [][C8_Step]_vars

\* the Update of the Secret failed: the pass ended there
C8_Witness ==
  /\ Done(1) /\ Did(1, "Secrets.Update", "error")
  /\ disk[1] = EmptyDisk
  /\ Len(Primary.webhooks) > 0 /\ len(Primary.webhooks[1].caBundle) = 0

(***************************************************************************)
(* C9.  Two passes read the same version of an existing Secret and both    *)
(* regenerate: at most one of the two Updates carrying that version is     *)
(* accepted.  The pass whose Update is rejected for the version mismatch   *)
(* returns an error without a second attempt, the Secret does not hold its *)
(* material but exactly the three fields of the accepted pass, and neither *)
(* its disk nor any webhook configuration receives what it generated.      *)
(***************************************************************************)
UpdateCalls(r) == {i \in 1..Len(ops[r]) : ops[r][i].op = "Secrets.Update"}

NoBundle(obj, b) == \A i \in 1..Len(obj.webhooks) : obj.webhooks[i].caBundle # b

C9_ConflictIsFatal ==
  /\ ~ /\ Did(1, "Secrets.Update", "ok") /\ Did(2, "Secrets.Update", "ok")
       /\ existing[1].resourceVersion = existing[2].resourceVersion
  /\ \A r \in AllReplicas :
       Did(r, "Secrets.Update", "conflict") =>
         LET o == IF r = 1 THEN 2 ELSE 1 IN
         /\ Done(r) /\ result[r] = "updating secret"
         /\ Cardinality(UpdateCalls(r)) = 1
         /\ ops[r][Len(ops[r])].op = "Secrets.Update"
         /\ Did(o, "Secrets.Update", "ok")
         /\ existing[o] = existing[r]
         /\ secret.data = use[o] /\ secret.data # use[r]
         /\ \A k \in DOMAIN secret.data : secret.data[k] # use[r][k]
         /\ disk[r] = EmptyDisk
         /\ \A n \in Names : NoBundle(vwcStore[n], use[r]["ca.crt"])
                          /\ NoBundle(mwcStore[n], use[r]["ca.crt"])

C9_Witness ==
  /\ Did(2, "Secrets.Update", "conflict") /\ Ok(1)
  /\ existing[1] = existing[2]
  /\ secret.data = use[1]
  /\ AllBundles(Primary, use[1]["ca.crt"])

(***************************************************************************)
(* C10.  On the regeneration path a pass whose initial Get found the       *)
(* Secret persists with an Update carrying the resourceVersion that Get    *)
(* returned, never with a Create; a pass whose Get reported not-found      *)
(* persists with a Create, never with an Update.                           *)
(***************************************************************************)
C10_UpsertFollowsRead ==
  /\ \A i \in 1..Len(ops[1]) :
       /\ ops[1][i].op = "Secrets.Update" =>
            /\ ops[1][1] = Call("Secrets.Get", "ok", ops[1][i].rv)
            /\ ops[1][i].rv = pre[1].resourceVersion
            /\ ops[1][i].rv > 0
       /\ ops[1][i].op = "Secrets.Create" =>
            ops[1][1] = Call("Secrets.Get", "notfound", 0)
  /\ Did(1, "Secrets.Get", "ok") => ~Called(1, "Secrets.Create")
  /\ Did(1, "Secrets.Get", "notfound") => ~Called(1, "Secrets.Update")
  /\ (Did(1, "generateServerCert", "ok") /\ pc[1] # "persist") =>
       (Called(1, "Secrets.Update") \/ Called(1, "Secrets.Create"))

\* a second pass updates the Secret a first pass created
C10_Witness ==
  /\ passes[1] = 2 /\ Done(1)
  /\ Did(1, "Secrets.Update", "ok")
  /\ Lookup(pre[1].data, "ca.crt").der.key >= FirstFreshKey
  /\ pre[1].resourceVersion = 1

(***************************************************************************)
(* C11.  Racing the patch step between two replicas is safe: once both      *)
(* passes have returned success, every entry of the primary webhook        *)
(* configuration carries the ca.crt of the Secret now in the store.        *)
(* Refuted under SpecRace: a pass that read the Secret while it was valid  *)
(* and reuses it patches after the pass that regenerated, and leaves the   *)
(* superseded authority in the configuration.                              *)
(***************************************************************************)
C11_RacingPatchIsSafe ==
  (Ok(1) /\ Ok(2)) =>
    /\ Primary.exists
    /\ AllBundles(Primary, Lookup(secret.data, "ca.crt"))

(***************************************************************************)
(* C12.  needsRenewal answers true exactly when tls.crt is absent, is      *)
(* empty, holds no PEM block, holds a block that is no certificate, or     *)
(* holds a certificate with notAfter - now < threshold; it answers false   *)
(* exactly when a well-formed leaf has notAfter - now >= threshold, the    *)
(* case notAfter - now = threshold included.  (SpecStep: the clock does    *)
(* not move after the call.)                                               *)
(***************************************************************************)
C12_RenewalRule ==
  \A r \in AllReplicas :
    Called(r, "needsRenewal") =>
      LET d == existing[r].data
          absent == "tls.crt" \notin DOMAIN d
          empty == ~absent /\ d["tls.crt"].fmt = "empty"
          noPEM == ~absent /\ d["tls.crt"].fmt = "raw"
          noCert == ~absent /\ d["tls.crt"].fmt = "pem" /\ d["tls.crt"].der.asn # "cert"
          wellFormed == ~absent /\ d["tls.crt"].fmt = "pem" /\ d["tls.crt"].der.asn = "cert"
          remaining == d["tls.crt"].der.notAfter - now
      IN /\ Did(r, "needsRenewal", "true") <=>
              \/ absent \/ empty \/ noPEM \/ noCert
              \/ wellFormed /\ remaining < cfg.RenewalThreshold
         /\ Did(r, "needsRenewal", "false") <=>
              wellFormed /\ remaining >= cfg.RenewalThreshold

\* the boundary: remaining validity equal to the threshold
C12_Witness ==
  /\ pc[1] = "writeDisk" /\ Did(1, "needsRenewal", "false")
  /\ pc[2] = "checkRenewal"
  /\ ops[1][Len(ops[1])].op = "needsRenewal"
  /\ HasLeaf(existing[1])
  /\ Remaining(existing[1], now) = cfg.RenewalThreshold

(***************************************************************************)
(* C13.  The renewal decision looks at tls.crt, the threshold and the      *)
(* clock only: two Secrets with the same tls.crt and any ca.crt and        *)
(* tls.key, checked at the same time, get the same answer and take the     *)
(* same branch of Ensure; a well-formed leaf with enough validity left is  *)
(* reused whatever the authority certificate next to it, expired or        *)
(* missing included.                                                       *)
(***************************************************************************)
C13_LeafOnly ==
  /\ ( /\ Called(1, "needsRenewal") /\ Called(2, "needsRenewal")
       /\ Lookup(existing[1].data, "tls.crt") = Lookup(existing[2].data, "tls.crt") ) =>
       /\ Did(1, "needsRenewal", "true") <=> Did(2, "needsRenewal", "true")
       /\ (pc[1] = "genCA") <=> (pc[2] = "genCA")
  /\ \A r \in AllReplicas :
       ( /\ Called(r, "needsRenewal") /\ HasLeaf(existing[r])
         /\ Remaining(existing[r], now) >= cfg.RenewalThreshold ) =>
         /\ Did(r, "needsRenewal", "false")
         /\ pc[r] # "genCA" /\ ~Called(r, "generateCA")

\* the same valid leaf next to an expired authority and next to no authority
C13_Witness ==
  /\ Did(1, "needsRenewal", "false") /\ Did(2, "needsRenewal", "false")
  /\ existing[1].data["tls.crt"] = existing[2].data["tls.crt"]
  /\ "ca.crt" \notin DOMAIN existing[1].data
  /\ "ca.crt" \in DOMAIN existing[2].data
  /\ existing[2].data["ca.crt"].der.notAfter < now
  /\ Lookup(existing[1].data, "tls.key") # Lookup(existing[2].data, "tls.key")

(***************************************************************************)
(* C14.  As claimed: every pass that fetched the validating configuration  *)
(* goes on to call its Update, an empty webhook list included.  Refuted:   *)
(* with an empty list the loop never sets updated and the Update is        *)
(* skipped.                                                                *)
(***************************************************************************)
PastPrimary(r) ==
  Did(r, "Validating.Get", "ok") /\ pc[r] \in {"getMWC", "updateMWC", "done"}

C14_AlwaysUpdates == PastPrimary(1) => Called(1, "Validating.Update")

(***************************************************************************)
(* C14, amended.  A pass that fetched the validating configuration calls   *)
(* its Update exactly when the webhook list fetched is non-empty; with an  *)
(* empty list it makes no Update, leaves the stored object as fetched and  *)
(* goes on to the mutating configuration.                                  *)
(***************************************************************************)
C14_UpdatesIfPatched ==
  PastPrimary(1) =>
    /\ Called(1, "Validating.Update") <=> Len(vwc[1].webhooks) > 0
    /\ Len(vwc[1].webhooks) = 0 =>
         /\ Primary = vwc[1]
         /\ ops[1][Len(ops[1])].op = "Validating.Get" \/ Called(1, "Mutating.Get")

C14_Witness ==
  /\ Ok(1) /\ Did(1, "Validating.Get", "ok")
  /\ Primary.exists /\ Len(Primary.webhooks) = 0
  /\ ~Called(1, "Validating.Update")
  /\ Did(1, "Secrets.Create", "ok")

(***************************************************************************)
(* C15.  As claimed: when the mutating configuration exists, a successful  *)
(* pass leaves the authority certificate on every entry of both kinds, and *)
(* one rule decides for both kinds whether the Update is called, empty     *)
(* lists included.  Refuted for two empty lists: the mutating Update is    *)
(* called, the validating one is not.                                      *)
(***************************************************************************)
SameBundles(r) ==
  /\ AllBundles(Primary, use[r]["ca.crt"])
  /\ AllBundles(Secondary, use[r]["ca.crt"])

C15_PatchedIdentically ==
  (Ok(1) /\ Secondary.exists) =>
    /\ SameBundles(1)
    /\ (Len(Primary.webhooks) = 0 <=> Len(Secondary.webhooks) = 0) =>
         (Called(1, "Validating.Update") <=> Called(1, "Mutating.Update"))

(***************************************************************************)
(* C15, amended.  When the mutating configuration exists, a successful     *)
(* pass leaves the authority certificate on every entry of both kinds; the *)
(* mutating Update is called on every such pass, an empty list included,   *)
(* the validating Update only for a non-empty list.                        *)
(***************************************************************************)
C15_BundlesIdentical ==
  (Ok(1) /\ Secondary.exists) =>
    /\ SameBundles(1)
    /\ use[1]["ca.crt"] = Lookup(secret.data, "ca.crt")
    /\ Did(1, "Mutating.Get", "ok") /\ Did(1, "Mutating.Update", "ok")
    /\ Called(1, "Validating.Update") <=> Len(Primary.webhooks) > 0

C15_Witness ==
  /\ Ok(1) /\ Secondary.exists
  /\ Len(Primary.webhooks) = 0 /\ Len(Secondary.webhooks) = 0
  /\ Did(1, "Mutating.Update", "ok") /\ ~Called(1, "Validating.Update")

(***************************************************************************)
(* C16.  A Get of the mutating configuration that fails with anything but  *)
(* not-found, and a failed Update of either configuration, end the pass    *)
(* with that error: Ensure does not return success.                        *)
(***************************************************************************)
FailedAt(r, o) == \E i \in 1..Len(ops[r]) : ops[r][i].op = o /\ ops[r][i].res # "ok"

C16_PatchErrorsAreFatal ==
  \A r \in AllReplicas :
    /\ (FailedAt(r, "Mutating.Get") /\ ~Did(r, "Mutating.Get", "notfound")) =>
         Done(r) /\ result[r] = "getting MutatingWebhookConfiguration"
    /\ FailedAt(r, "Validating.Update") =>
         Done(r) /\ result[r] = "updating ValidatingWebhookConfiguration"
    /\ FailedAt(r, "Mutating.Update") =>
         Done(r) /\ result[r] = "updating MutatingWebhookConfiguration"

\* one replica loses the race for the validating Update, the other fails at the Get
C16_Witness ==
  /\ Done(1) /\ Did(1, "Mutating.Get", "error")
  /\ Done(2) /\ Did(2, "Validating.Update", "conflict")

(***************************************************************************)
(* C17.  The name the mutating configuration is fetched under is the       *)
(* validating name with its leftmost "validating" replaced by "mutating",  *)
(* every later occurrence kept; a name without the marker, the empty name  *)
(* and names shorter than the marker included, is used as it is.           *)
(* (SpecStep: a configuration whose webhook bears its name is installed    *)
(* under every candidate name, so the object fetched tells the name.)      *)
(***************************************************************************)
C17_FirstOccurrenceOnly ==
  Did(1, "Mutating.Get", "ok") =>
    LET name == cfg.WebhookConfigName
        at == Occurrences(name)
        got == mwc[1].webhooks[1].name
    IN /\ at = {} => got = name
       /\ at # {} =>
            \E i \in at :
              /\ \A j \in at : i <= j
              /\ got = SubSeq(name, 1, i) \o new
                       \o SubSeq(name, i + Len(old) + 1, Len(name))
              /\ Len(got) = Len(name) - Len(old) + Len(new)
              /\ Cardinality(Occurrences(got)) = Cardinality(at) - 1

\* a name with the marker twice: the second one is still there
C17_Witness ==
  /\ Did(1, "Mutating.Get", "ok")
  /\ cfg.WebhookConfigName = old \o <<"-">> \o old
  /\ mwc[1].webhooks[1].name = new \o <<"-">> \o old

(***************************************************************************)
(* C18.  The DNS names a regenerated leaf carries are those of the         *)
(* configured service and namespace: exactly two, <service>.<namespace>    *)
(* .svc first and <service>.<namespace>.svc.cluster.local second, the      *)
(* same for every call with the same configuration.                        *)
(***************************************************************************)
C18_DNSNames ==
  \A r \in AllReplicas :
    Did(r, "generateServerCert", "ok") =>
      LET d == use[r]["tls.crt"].der.dns
          base == cfg.ServiceName \o <<".">> \o cfg.Namespace
      IN /\ Len(d) = 2
         /\ d[1] = base \o <<".", "s", "v", "c">>
         /\ d[2] = d[1] \o <<".", "c", "l", "u", "s", "t", "e", "r",
                             ".", "l", "o", "c", "a", "l">>
         /\ \A q \in AllReplicas :
              Did(q, "generateServerCert", "ok") => use[q]["tls.crt"].der.dns = d

\* two leaves with different keys for service a.b in namespace ns
C18_Witness ==
  /\ Did(1, "generateServerCert", "ok") /\ Did(2, "generateServerCert", "ok")
  /\ cfg.ServiceName = <<"a", ".", "b">> /\ cfg.Namespace = <<"n", "s">>
  /\ use[1]["tls.crt"].der.dns[1] = <<"a", ".", "b", ".", "n", "s", ".", "s", "v", "c">>
  /\ use[1]["tls.crt"].der.key # use[2]["tls.crt"].der.key

(***************************************************************************)
(* C19.  writeCertsToDisk succeeds only with the directory in place and    *)
(* both files holding exactly the bytes given; when MkdirAll or either     *)
(* WriteFile fails it returns an error and so does Ensure, so a directory  *)
(* in which only one file was written is never reported as success.        *)
(***************************************************************************)
C19_BothFilesOrError ==
  LET written == /\ disk[1].dir
                 /\ disk[1].crt = File(use[1]["tls.crt"])
                 /\ disk[1].key = File(use[1]["tls.key"])
  IN /\ Did(1, "writeCertsToDisk", "ok") => written
     /\ Did(1, "writeCertsToDisk", "error") =>
          Done(1) /\ result[1] = "writing certs to disk"
     /\ (Called(1, "writeCertsToDisk") /\ ~written) =>
          Did(1, "writeCertsToDisk", "error") /\ result[1] # "ok"

\* tls.crt was written into a fresh directory, tls.key was not
C19_Witness ==
  /\ Did(1, "writeCertsToDisk", "error") /\ Done(1)
  /\ disk[1].dir /\ disk[1].crt = File(use[1]["tls.crt"])
  /\ ~disk[1].key.exists
  /\ len(use[1]["tls.key"]) > 0

(***************************************************************************)
(* C20.  Ensure never deletes the Secret: a Secret that was in the store   *)
(* when a pass began, or that the pass has read, created or updated, is in *)
(* the store in every later state, whether the pass fails or succeeds.     *)
(***************************************************************************)
C20_NeverDeleted ==
  ( \/ pre[1].name # ""
    \/ Did(1, "Secrets.Get", "ok")
    \/ Did(1, "Secrets.Create", "ok")
    \/ Did(1, "Secrets.Update", "ok") ) =>
    secret.name = SecretName

\* a first pass created the Secret, the second failed to update it
C20_Witness ==
  /\ passes[1] = 2 /\ Done(1) /\ result[1] = "updating secret"
  /\ Lookup(pre[1].data, "ca.crt").der.key >= FirstFreshKey
  /\ secret = pre[1]

(***************************************************************************)
(* C21.  Ensure creates no webhook configuration: in every step the        *)
(* configurations that exist stay the same.  A step changes a stored       *)
(* configuration only by the Update that directly follows its Get in the   *)
(* same pass, on the object under the configured (or derived) name, and    *)
(* the stored object then differs from the old one in the CA bundles of    *)
(* its entries and in its resourceVersion only.                            *)
(***************************************************************************)
OnlyPatched(before, after, r) ==
  /\ after.exists = before.exists
  /\ Len(after.webhooks) = Len(before.webhooks)
  /\ \A i \in 1..Len(before.webhooks) :
       /\ after.webhooks[i].name = before.webhooks[i].name
       /\ after # before => after.webhooks[i].caBundle = use[r]["ca.crt"]

C21_Step ==
  /\ \A n \in Names :
       /\ OnlyPatched(vwcStore[n], vwcStore'[n], 1)
       /\ OnlyPatched(mwcStore[n], mwcStore'[n], 1)
       /\ vwcStore'[n] # vwcStore[n] =>
            /\ n = cfg.WebhookConfigName
            /\ ops[1][Len(ops[1])] = Call("Validating.Get", "ok", vwcStore[n].resourceVersion)
            /\ ops'[1] = Append(ops[1], Call("Validating.Update", "ok", vwcStore[n].resourceVersion))
       /\ mwcStore'[n] # mwcStore[n] =>
            /\ n = mutatingWebhookName(cfg.WebhookConfigName)
            /\ ops[1][Len(ops[1])] = Call("Mutating.Get", "ok", mwcStore[n].resourceVersion)
            /\ ops'[1] = Append(ops[1], Call("Mutating.Update", "ok", mwcStore[n].resourceVersion))

C21_OnlyPatches == [][C21_Step]_vars

\* a pass patched the validating configuration and found no mutating one: none appeared
C21_Witness ==
  /\ Ok(1) /\ Did(1, "Validating.Update", "ok") /\ Did(1, "Mutating.Get", "notfound")
  /\ Primary.resourceVersion = 2
  /\ \A n \in Names : ~mwcStore[n].exists

(***************************************************************************)
(* C22.  A pass is one linear run: it makes each of its calls at most      *)
(* once (one Get and at most one write of the Secret, one Get and at most  *)
(* one Update per webhook configuration), at most one call of a pass       *)
(* fails, and a pass that has not returned can always take its next step;  *)
(* it returns success when no call failed and an error when one did.       *)
(***************************************************************************)
CallsOf(r, names) == {i \in 1..Len(ops[r]) : ops[r][i].op \in names}

Failures(r) == {i \in 1..Len(ops[r]) : IsFailure(ops[r][i])}

C22_SingleLinearPass ==
  /\ \A o \in {"Secrets.Get", "needsRenewal", "generateCA", "generateServerCert",
               "writeCertsToDisk", "Validating.Get", "Validating.Update",
               "Mutating.Get", "Mutating.Update"} :
       Cardinality(CallsOf(1, {o})) <= 1
  /\ Cardinality(CallsOf(1, {"Secrets.Update", "Secrets.Create"})) <= 1
  /\ Cardinality(Failures(1)) <= 1
  /\ Done(1) => /\ result[1] # ""
                /\ result[1] = "ok" <=> Failures(1) = {}
  /\ pc[1] \notin {"idle", "done"} =>
       /\ result[1] = "" /\ Failures(1) = {}
       /\ ENABLED Ensure(1)

\* a pass that made all ten calls and failed at the last
C22_Witness ==
  /\ Done(1) /\ Len(ops[1]) = 10
  /\ result[1] = "updating MutatingWebhookConfiguration"
  /\ Did(1, "Secrets.Update", "ok")

(***************************************************************************)
(* C23.  A Get of the Secret that fails with anything but not-found ends   *)
(* the pass with that error as its only call: nothing is generated, and    *)
(* the Secret, the disk and the webhook configurations stay as they were.  *)
(* Certificates are generated only after a not-found Get, then persisted   *)
(* with Create, or after a Get that found a Secret due for renewal.        *)
(***************************************************************************)
C23_ReadErrorIsFatal ==
  /\ Did(1, "Secrets.Get", "error") =>
       /\ Done(1) /\ result[1] = "getting secret"
       /\ Len(ops[1]) = 1
       /\ secret = pre[1]
       /\ existing[1] = NoSecret
       /\ passes[1] = 1 =>
            /\ nextKey = FirstFreshKey
            /\ disk[1] = EmptyDisk
            /\ secret \in InitSecrets
            /\ Primary \in InitConfigs /\ Secondary \in InitConfigs
  /\ Called(1, "generateCA") =>
       \/ ops[1][1] = Call("Secrets.Get", "notfound", 0)
       \/ /\ ops[1][1] = Call("Secrets.Get", "ok", pre[1].resourceVersion)
          /\ Did(1, "needsRenewal", "true")
  /\ Did(1, "Secrets.Get", "notfound") =>
       /\ pre[1] = NoSecret /\ ~Called(1, "Secrets.Update")
       /\ pc[1] \in {"writeDisk", "getVWC", "updateVWC", "getMWC", "updateMWC"} =>
            Did(1, "Secrets.Create", "ok")

\* the read failed while a Secret due for renewal was in the store
C23_Witness ==
  /\ Done(1) /\ Did(1, "Secrets.Get", "error") /\ passes[1] = 1
  /\ HasLeaf(secret) /\ Remaining(secret, now) < cfg.RenewalThreshold
  /\ Primary.exists /\ Len(Primary.webhooks) > 0

(***************************************************************************)
(* C24.  A generated leaf is no CA, carries the names it was given in the  *)
(* same number and order, has the first of them as its common name, and    *)
(* is signed with the key of the authority handed to the generator, so     *)
(* that it verifies for server authentication against that authority's     *)
(* certificate at the time of generation.                                  *)
(***************************************************************************)
\* cert.Verify(VerifyOptions{Roots: {caPEM}, KeyUsages: {ServerAuth}}) at time t
VerifiesAt(leafPEM, caPEM, t) ==
  /\ IssuedBy(leafPEM, caPEM)
  /\ leafPEM.der.notBefore <= t /\ t <= leafPEM.der.notAfter
  /\ caPEM.der.notBefore <= t /\ t <= caPEM.der.notAfter

C24_LeafShape ==
  \A r \in AllReplicas :
    Did(r, "generateServerCert", "ok") =>
      LET leaf == use[r]["tls.crt"]
          given == dnsNamesForService(cfg.ServiceName, cfg.Namespace)
      IN /\ IsCertPEM(leaf) /\ leaf.typ = "CERTIFICATE"
         /\ ~leaf.der.isCA
         /\ Len(leaf.der.dns) = Len(given)
         /\ \A i \in 1..Len(given) : leaf.der.dns[i] = given[i]
         /\ leaf.der.cn = given[1]
         /\ leaf.der.signer = ca[r].key
         /\ VerifiesAt(leaf, ca[r].certPEM, now)
         /\ use[r]["ca.crt"] = ca[r].certPEM
         /\ KeyPair(leaf, use[r]["tls.key"])

\* a leaf for the empty service name, under the authority generated just before it
C24_Witness ==
  /\ Did(1, "generateServerCert", "ok") /\ pc[2] = "genLeaf"
  /\ cfg.ServiceName = <<>> /\ cfg.Namespace = <<"b", ".", "c">>
  /\ use[1]["tls.crt"].der.cn = <<".", "b", ".", "c", ".", "s", "v", "c">>
  /\ Len(use[1]["tls.crt"].der.dns) = 2

(***************************************************************************)
(* C25.  A generated authority is self-signed, is marked as a CA, may sign *)
(* certificates and CRLs, and has the common name "webhook-ca", whatever   *)
(* the validity asked for.                                                 *)
(***************************************************************************)
C25_AuthorityShape ==
  \A r \in AllReplicas :
    Did(r, "generateCA", "ok") =>
      LET c == ca[r].cert
      IN /\ c.asn = "cert"
         /\ c.signer = c.key /\ ca[r].key = c.key
         /\ c.isCA
         /\ {"certSign", "crlSign"} \subseteq c.keyUsage
         /\ c.cn = <<"webhook-ca">>
         /\ ca[r].certPEM = EncodeToMemory("CERTIFICATE", c)
         /\ \A q \in AllReplicas :
              (q # r /\ Did(q, "generateCA", "ok")) => ca[q].key # c.key

C25_Witness ==
  /\ pc[1] = "genLeaf" /\ Did(1, "generateCA", "ok")
  /\ passes[1] = MaxPasses /\ cfg.CertValidity = MaxValidity
  /\ ca[1].cert.isCA /\ ca[1].cert.signer = ca[1].key

(***************************************************************************)
(* C26.  The validity window of a generated authority and of a generated   *)
(* leaf is [t, t + CertValidity], t being the clock read when it is        *)
(* generated: NotBefore is not earlier than t (it is t) and                *)
(* NotAfter - NotBefore is the configured validity.                        *)
(***************************************************************************)
\* the window of certificate c opens at t and lasts the configured validity
WindowFrom(c, t) ==
  /\ c.notBefore >= t /\ c.notBefore = t
  /\ c.notAfter - c.notBefore = cfg.CertValidity

C26_Step ==
  \A r \in AllReplicas :
    /\ (pc[r] = "genCA" /\ pc'[r] = "genLeaf") =>
         /\ WindowFrom(ca'[r].cert, now)
         /\ WindowFrom(ca'[r].certPEM.der, now)
    /\ (pc[r] = "genLeaf" /\ pc'[r] = "persist") =>
         /\ IsCertPEM(use'[r]["tls.crt"])
         /\ WindowFrom(use'[r]["tls.crt"].der, now)

C26_ValidityWindow == [][C26_Step]_vars

\* both certificates of one pass, the clock having moved between the two
C26_Witness ==
  /\ Did(1, "generateCA", "ok") /\ Did(1, "generateServerCert", "ok")
  /\ now = MaxTime /\ cfg.CertValidity = MaxValidity
  /\ ca[1].cert.notBefore = 0
  /\ use[1]["tls.crt"].der.notBefore = MaxTime
  /\ use[1]["tls.crt"].der.notAfter = MaxTime + MaxValidity

(***************************************************************************)
(* Vocabulary of the Reconcile claims.                                     *)
(***************************************************************************)
RDid(o, res) == \E i \in 1..Len(rec.ops) : rec.ops[i] = RCall(o, res)

RCalled(o) == \E i \in 1..Len(rec.ops) : rec.ops[i].op = o

\* Reconcile has returned
RDone == rec.pc = "done"

\* the run at hand read a ButaneConfig
Fetched == RDid("Get", "ok")

\* the Secret the run at hand is about
TheSecret == ign[SecretNameFor(ButaneName)]

\* the run at hand has written nothing
WroteNothing ==
  ~RCalled("Create") /\ ~RCalled("Update") /\ ~RCalled("Status.Update")

C28_TranslationFailureIsError ==
  (RDone /\ Fetched /\ ~MissingConfig(rec.obj.raw)
         /\ ConversionFailed(TranslateBytes(rec.obj.raw))) =>
    /\ rec.result # "ok"
    /\ WroteNothing

(***************************************************************************)
(* C29.  A run of Reconcile that read a ButaneConfig without spec.config   *)
(* returns the error "missing Config in ButaneConfig <name>" right after   *)
(* the read; no step of it changes a Secret or the ButaneConfig.           *)
(***************************************************************************)
C29_Step ==
  (rec' # rec /\ rec'.runs = rec.runs /\ RDid("Get", "ok")' /\ rec'.obj.raw.nil) =>
    /\ ign' = ign /\ bc' = bc
    /\ rec'.pc \in {"translate", "done"}
    /\ rec'.pc = "done" =>
         /\ rec'.result = "missing Config in ButaneConfig"
         /\ rec'.ops = <<RCall("Get", "ok"), RCall("rawConfig", "nil")>>

C29_MissingConfig == [][C29_Step]_vars

\* spec.config removed after a successful reconcile: the error, the old Secret
\* and the old status
C29_Witness ==
  /\ RDone /\ rec.result = "missing Config in ButaneConfig"
  /\ rec.runs = 2 /\ rec.obj.raw.nil
  /\ TheSecret.exists
  /\ bc.exists /\ bc.raw.nil /\ bc.secretName = SecretNameFor(ButaneName)

(***************************************************************************)
(* C30.  A Create that finds the Secret present is followed by an Update   *)
(* of it, after which the Secret's userdata is the translation of the      *)
(* document the run read, whatever it held before.                         *)
(***************************************************************************)
C30_UpdatedToNewConfig ==
  /\ RDid("Create", "alreadyexists") =>
       \/ rec.pc = "update"
       \/ RCalled("Update")
  /\ RDid("Update", "ok") =>
       /\ RDid("Create", "alreadyexists")
       /\ TheSecret.exists
       /\ TheSecret.userdata = TranslateBytes(rec.obj.raw).out
       /\ TheSecret.userdata = Ignition(rec.obj.raw)
       /\ rec.pc \in {"status", "done"}
  /\ RDid("Update", "error") => (RDone /\ rec.result = "update")

\* the second run replaced the translation of one document by that of another
C30_Witness ==
  /\ RDone /\ rec.result = "ok" /\ rec.runs = 2
  /\ RDid("Update", "ok")
  /\ rec.obj.raw = Doc("1.5.0", 2, FALSE, FALSE)
  /\ TheSecret.userdata = Ignition(Doc("1.5.0", 2, FALSE, FALSE))
  /\ TheSecret.resourceVersion = 2
  /\ TheSecret.owner.uid = 1 /\ rec.obj.uid = 1

(***************************************************************************)
(* C31.  The validator rejects a create or an update exactly when the new  *)
(* object's spec.config fails json.Unmarshal, or its translation returns   *)
(* an error or a report with an entry; the object an update replaces has   *)
(* no part in the answer; a delete is always accepted.                     *)
(***************************************************************************)
\* the validator rejected the request reviewed last
Rejected == adm.err # ""

C31_ValidatorVerdict ==
  /\ adm.verb \in {"create", "update"} =>
       ( Rejected <=>
           \/ adm.new.nil
           \/ adm.new.syntax # "json"
           \/ TranslateBytes(adm.new).err # ""
           \/ TranslateBytes(adm.new).entries > 0 )
  /\ adm.verb = "create" => adm.old = NilRaw
  /\ adm.verb = "delete" => ~Rejected

\* an update from a document the validator would reject to a valid one is accepted
C31_Witness ==
  /\ adm.verb = "update" /\ ~Rejected
  /\ adm.old.bad /\ adm.new = Doc("1.5.0", 2, FALSE, FALSE)
  /\ bc.exists /\ bc.raw = adm.new

(***************************************************************************)
(* C32.  Under every interleaving of two replicas' passes, the Secret in   *)
(* the store is a triple of one generation (its leaf is issued by its      *)
(* ca.crt, its tls.key is the leaf's key), and what one pass writes to     *)
(* the store, to its disk and into the webhook configurations is the one   *)
(* triple it holds: the record it read, or the authority and the leaf it   *)
(* generated itself.                                                       *)
(***************************************************************************)
\* ca.crt, tls.crt and tls.key of one generation
ConsistentTriple(d) ==
  /\ {"ca.crt", "tls.crt", "tls.key"} \subseteq DOMAIN d
  /\ IssuedBy(d["tls.crt"], d["ca.crt"])
  /\ KeyPair(d["tls.crt"], d["tls.key"])

\* replica r wrote the Secret
Wrote(r) == Did(r, "Secrets.Create", "ok") \/ Did(r, "Secrets.Update", "ok")

C32_OneTriple ==
  /\ secret.name # "" =>
       /\ ConsistentTriple(secret.data)
       /\ \/ secret.data \in IssuedData
          \/ \E r \in AllReplicas : Wrote(r) /\ secret.data = use[r]
  /\ \A r \in AllReplicas :
       /\ Did(r, "needsRenewal", "false") => use[r] = existing[r].data
       /\ Did(r, "generateServerCert", "ok") =>
            /\ use[r]["ca.crt"] = ca[r].certPEM
            /\ use[r]["tls.crt"].der.signer = ca[r].key
            /\ \A q \in AllReplicas \ {r} : use[r]["tls.crt"].der.signer # ca[q].key
       /\ Persisted(r) => ConsistentTriple(use[r])
       /\ Did(r, "writeCertsToDisk", "ok") =>
            /\ disk[r].crt = File(use[r]["tls.crt"])
            /\ disk[r].key = File(use[r]["tls.key"])
       /\ Did(r, "Validating.Update", "ok") => AllBundles(vwc[r], use[r]["ca.crt"])
       /\ Did(r, "Mutating.Update", "ok") => AllBundles(mwc[r], use[r]["ca.crt"])

\* both replicas generated; the first one's triple is in the store, on its disk
\* and in the configuration it sent
C32_Witness ==
  /\ Ok(1) /\ Wrote(1) /\ Did(1, "Validating.Update", "ok")
  /\ Did(2, "generateServerCert", "ok")
  /\ use[1] # use[2]
  /\ secret.data = use[1]
  /\ disk[1].crt = File(secret.data["tls.crt"])

(***************************************************************************)
(* C33.  Concurrent cold start: when both replicas read no Secret and both *)
(* generate, at most one Create succeeds, and exactly one when neither     *)
(* Create meets a transport error; the replica answered already-exists     *)
(* returns "creating secret" without an Update, without writing its disk   *)
(* and without a call on a webhook configuration, and the Secret holds     *)
(* the triple of the replica whose Create succeeded.                       *)
(***************************************************************************)
Cold(r) == Did(r, "Secrets.Get", "notfound")

Other(r) == IF r = 1 THEN 2 ELSE 1

C33_ColdStartRace ==
  (Cold(1) /\ Cold(2)) =>
    /\ ~(Did(1, "Secrets.Create", "ok") /\ Did(2, "Secrets.Create", "ok"))
    /\ ( /\ Called(1, "Secrets.Create") /\ Called(2, "Secrets.Create")
         /\ ~Did(1, "Secrets.Create", "error") /\ ~Did(2, "Secrets.Create", "error") ) =>
         \E r \in AllReplicas :
           /\ Did(r, "Secrets.Create", "ok")
           /\ Did(Other(r), "Secrets.Create", "alreadyexists")
    /\ \A r \in AllReplicas :
         /\ Did(r, "Secrets.Create", "ok") => secret = SecretOf(1, use[r])
         /\ Did(r, "Secrets.Create", "alreadyexists") =>
              /\ Done(r) /\ result[r] = "creating secret"
              /\ CallsOf(r, {"Secrets.Update", "writeCertsToDisk", "Validating.Get",
                             "Validating.Update", "Mutating.Get", "Mutating.Update"}) = {}
              /\ disk[r] = EmptyDisk
              /\ vwc[r] = NoConfig /\ mwc[r] = NoConfig
              /\ Did(Other(r), "Secrets.Create", "ok")
              /\ secret.data = use[Other(r)] /\ secret.data # use[r]

\* replica 2 created the Secret first; replica 1, having generated too, gave up
C33_Witness ==
  /\ Cold(1) /\ Cold(2)
  /\ Did(1, "generateServerCert", "ok") /\ Did(1, "Secrets.Create", "alreadyexists")
  /\ Did(2, "Secrets.Create", "ok") /\ Ok(2)
  /\ secret.data = use[2]

(***************************************************************************)
(* C34.  Recovery by calling Ensure again.  A cold-start pass that created *)
(* the Secret and wrote the files and then found the validating            *)
(* configuration missing returns that error, and Secret and files stay.    *)
(* A later pass that reads a Secret whose leaf has at least the threshold  *)
(* left reuses it: nothing is generated, the Secret is not written, and    *)
(* when all its calls succeed it returns success with the validating       *)
(* configuration carrying that Secret's ca.crt and the files its leaf and  *)
(* key.                                                                    *)
(***************************************************************************)
C34_Recovery ==
  /\ ( /\ Cold(1) /\ Did(1, "Secrets.Create", "ok")
       /\ Did(1, "writeCertsToDisk", "ok")
       /\ Did(1, "Validating.Get", "notfound") ) =>
       /\ Done(1) /\ result[1] = "getting ValidatingWebhookConfiguration"
       /\ secret = SecretOf(1, use[1])
       /\ DiskMatches(1, secret)
  /\ ( /\ passes[1] >= 2 /\ Called(1, "needsRenewal")
       /\ HasLeaf(existing[1])
       /\ Remaining(existing[1], now) >= cfg.RenewalThreshold ) =>
       /\ Did(1, "needsRenewal", "false")
       /\ CallsOf(1, {"generateCA", "generateServerCert",
                      "Secrets.Create", "Secrets.Update"}) = {}
       /\ secret = pre[1] /\ secret = existing[1]
       /\ use[1] = secret.data
       /\ (Done(1) /\ AllStepsSucceeded(1)) =>
            /\ Ok(1)
            /\ Primary.exists /\ AllBundles(Primary, secret.data["ca.crt"])
            /\ DiskMatches(1, secret)

\* the second pass, made after the administrator created the configuration the
\* first pass found missing, reused the Secret the first pass created
C34_Witness ==
  /\ passes[1] = 2 /\ Ok(1)
  /\ Did(1, "needsRenewal", "false") /\ Did(1, "Validating.Update", "ok")
  /\ secret.resourceVersion = 1 /\ secret.data \notin IssuedData
  /\ Primary.resourceVersion > InstalledConfig.resourceVersion
  /\ AllBundles(Primary, secret.data["ca.crt"])
  /\ DiskMatches(1, secret)

(***************************************************************************)
(* C35.  In every triple a pass generates, the leaf's validity window lies *)
(* within the authority's: the authority's NotAfter is not earlier than    *)
(* the leaf's.                                                             *)
(***************************************************************************)
C35_LeafWithinAuthority ==
  \A r \in AllReplicas :
    Did(r, "generateServerCert", "ok") =>
      /\ ca[r].cert.notBefore <= use[r]["tls.crt"].der.notBefore
      /\ ca[r].cert.notAfter >= use[r]["tls.crt"].der.notAfter

(***************************************************************************)
(* C36.  Ensure is idempotent after a generation.  A pass that generated   *)
(* and returned success leaves the Secret it wrote, the files of that      *)
(* Secret on disk and its ca.crt in every webhook entry.  With             *)
(* CertValidity above RenewalThreshold, a later pass that checks the       *)
(* Secret before CertValidity - RenewalThreshold has elapsed since the     *)
(* leaf was issued reuses it and does not write it; and no step of a       *)
(* reusing pass changes the Secret, the files or the configurations of     *)
(* such a store.                                                           *)
(***************************************************************************)
\* the store and the disk hold what a successful pass leaves
Settled ==
  /\ secret.name # "" /\ HasLeaf(secret)
  /\ DiskMatches(1, secret)
  /\ Primary.exists /\ AllBundles(Primary, secret.data["ca.crt"])
  /\ Secondary.exists => AllBundles(Secondary, secret.data["ca.crt"])

C36_State ==
  /\ (Ok(1) /\ Did(1, "generateServerCert", "ok")) =>
       /\ Settled
       /\ secret.data = use[1]
  /\ ( /\ passes[1] >= 2 /\ Called(1, "needsRenewal") /\ HasLeaf(existing[1])
       /\ cfg.CertValidity > cfg.RenewalThreshold
       /\ existing[1].data["tls.crt"].der.notAfter
            = existing[1].data["tls.crt"].der.notBefore + cfg.CertValidity
       /\ now - existing[1].data["tls.crt"].der.notBefore
            < cfg.CertValidity - cfg.RenewalThreshold ) =>
       /\ Did(1, "needsRenewal", "false")
       /\ CallsOf(1, {"generateCA", "generateServerCert",
                      "Secrets.Create", "Secrets.Update"}) = {}
       /\ secret = pre[1]

C36_Step ==
  (Settled /\ ops'[1] # ops[1] /\ Did(1, "needsRenewal", "false")') =>
    /\ secret' = secret
    /\ disk' = disk
    /\ vwcStore' = vwcStore
    /\ mwcStore' = mwcStore

C36_Idempotent == []C36_State /\ [][C36_Step]_vars

\* the second pass found both configurations as the first, generating pass had
\* left them, and left everything as it was
C36_Witness ==
  /\ passes[1] = 2 /\ Ok(1) /\ Did(1, "needsRenewal", "false")
  /\ cfg.CertValidity > cfg.RenewalThreshold
  /\ secret = pre[1] /\ secret.data \notin IssuedData
  /\ Settled
  /\ \E i \in 1..Len(ops[1]) : ops[1][i] = Call("Validating.Get", "ok", 2)
  /\ \E i \in 1..Len(ops[1]) : ops[1][i] = Call("Mutating.Get", "ok", 2)
  /\ Primary.resourceVersion = 2 /\ Secondary.resourceVersion = 2

(***************************************************************************)
(* C37.  Reconcile writes status.secretName only after the Secret has been *)
(* created or updated: a ButaneConfig whose status.secretName is set has   *)
(* a Secret of that name in its namespace, written by Reconcile and owned  *)
(* by it; a run calls Status().Update only after a successful Create or    *)
(* Update; a run whose Create or Update fails returns that error and does  *)
(* not call Status().Update.                                               *)
(***************************************************************************)
C37_State ==
  /\ (bc.exists /\ bc.secretName # <<>>) =>
       /\ bc.secretName = SecretNameFor(bc.name)
       /\ ign[bc.secretName].exists
       /\ ign[bc.secretName].namespace = bc.namespace
       /\ ign[bc.secretName].owner = [uid |-> bc.uid, name |-> bc.name, controller |-> TRUE]
       /\ ~ign[bc.secretName].userdata.nil
  /\ RCalled("Status.Update") =>
       /\ RDid("Create", "ok") \/ RDid("Update", "ok")
       /\ TheSecret.exists /\ TheSecret.userdata = rec.secret.userdata
  /\ RDid("Create", "error") =>
       /\ RDone /\ rec.result = "create"
       /\ ~RCalled("Update") /\ ~RCalled("Status.Update")
  /\ (RCalled("Update") /\ ~RDid("Update", "ok")) =>
       /\ RDone /\ rec.result = "update"
       /\ ~RCalled("Status.Update")

\* the status changes in no step but a Status().Update that follows the write
C37_Step ==
  (bc'.exists /\ bc'.secretName # bc.secretName) =>
    /\ rec.pc = "status" /\ RDid("Status.Update", "ok")'
    /\ RDid("Create", "ok") \/ RDid("Update", "ok")
    /\ ign' = ign /\ ign[bc'.secretName].exists

C37_StatusAfterSecret == []C37_State /\ [][C37_Step]_vars

\* the first run wrote the Secret and then the status; the second run's Update
\* failed, so the Secret keeps the old translation and the run returned the error
C37_Witness ==
  /\ rec.runs = 2 /\ RDone /\ rec.result = "update"
  /\ RDid("Create", "alreadyexists") /\ RDid("Update", "error")
  /\ bc.exists /\ bc.secretName = SecretNameFor(ButaneName)
  /\ TheSecret.exists
  /\ TheSecret.userdata = Ignition(Doc("1.5.0", 1, FALSE, FALSE))
  /\ rec.obj.raw = Doc("1.5.0", 2, FALSE, FALSE)

(***************************************************************************)
(* C38.  The validator and Reconcile agree on a document: when Reconcile   *)
(* has read a ButaneConfig whose spec.config is the document of the        *)
(* create or update the validator reviewed last, then an accepted          *)
(* document passed the nil check and the translation (no missing Config,   *)
(* no conversion failure), and a rejected document made the run write      *)
(* no Secret and no status.                                                *)
(***************************************************************************)
\* the run at hand read the document the validator reviewed last and is past
\* its translation step
ReviewedAndRead ==
  /\ adm.verb \in {"create", "update"}
  /\ Fetched /\ rec.obj.raw = adm.new
  /\ rec.pc \notin {"get", "translate"}

C38_ValidatorAgreesWithReconcile ==
  ReviewedAndRead =>
    /\ ~Rejected => /\ RDid("TranslateBytes", "ok")
                    /\ ~RDid("rawConfig", "nil")
                    /\ ~RDid("TranslateBytes", "failed")
                    /\ rec.result \notin {"missing Config in ButaneConfig",
                                          TranslateBytes(adm.new).err} \ {""}
    /\ Rejected => /\ WroteNothing
                   /\ ~RDid("TranslateBytes", "ok")
                   /\ rec.secret = NoIgnition

\* a document with a warning only, refused by the validator, stored past it and
\* reconciled: the run stopped at the translation and wrote nothing
C38_Witness ==
  /\ ReviewedAndRead /\ Rejected /\ RDone
  /\ adm.new = Doc("1.5.0", 1, TRUE, FALSE)
  /\ TranslateBytes(adm.new).err = "" /\ TranslateBytes(adm.new).entries > 0
  /\ RDid("TranslateBytes", "failed") /\ WroteNothing
  /\ ~TheSecret.exists

====
